---- MODULE Spec2Model ----
(***************************************************************************)
(* State-machine model of src/maze.js: the bit-packed cell store (Maze),   *)
(* the Branches iterator and the four step-by-step solvers (BFSSolver,     *)
(* DFSSolver, MTSolver = "MT-M2", MT_M1_Solver = "MT-M1").                 *)
(*                                                                         *)
(* A cell word is modelled as the set of the names of its set bits.  A     *)
(* position is <<row, col>>.  Every generator is a pc-machine: one action  *)
(* per resumption (from one yield to the next); the multi-walker solvers   *)
(* are split further into one action per worker step, in the fixed order   *)
(* in which the scheduler calls them.                                      *)
(***************************************************************************)
EXTENDS Integers, Sequences, FiniteSets, TLC

VARIABLES
    width, height,      \* Maze.width, Maze.height
    poMazeData,         \* Maze.poMazeData : cell index -> set of bit names
    visitOrder,         \* Maze.visitOrder : cell index -> Int
    thread_ownership,   \* Maze.thread_ownership : cell index -> id, -1 = absent
    algorithm,          \* appState.algorithm
    pc,                 \* position of the running generator
    hist,               \* summary of the tokens yielded so far
    bfs,                \* locals of BFSSolver.solve_step_by_step
    dfs,                \* locals of DFSSolver.solve_step_by_step
    m2,                 \* MTSolver: walkers and locals of solve_step_by_step
    m1,                 \* MT_M1_Solver: pruners, walker, bfs, locals
    tick,               \* parity of the number of steps of the run so far;
                        \* every step flips it, and fairness is stated over it
    loaded,             \* the cell words as Maze.Load stored them
    resets,             \* number of initSolver calls made after the first
    fresh,              \* what the solve on the freshly loaded maze produced
    probe,              \* a call of Maze.canMove made from outside a solver
    loadCall,           \* the call of loadMaze made, and how Maze.Load ended
    nextCall            \* a call of Branches.getNextThreads and its result

vars == <<width, height, poMazeData, visitOrder, thread_ownership,
          algorithm, pc, hist, bfs, dfs, m2, m1, tick,
          loaded, resets, fresh, probe, loadCall, nextCall>>

mazeVars == <<width, height>>

\* what no step of a solver changes
userVars == <<loaded, resets, fresh, probe, loadCall, nextCall>>

-----------------------------------------------------------------------------
(* Bounds of the explored input family. *)

\* mazes of every shape width x height with width * height <= MaxCells
MaxCells == 6

\* an MT-M2 walker is stepped only while its stack holds at most MaxStack
\* junctions (on some mazes the stack of the code grows without limit)
MaxStack == 6

\* initSolver is called at most MaxResets times after the first call
MaxResets == 2

\* a maze blob holds at most MaxBlobInts whole 32-bit integers
MaxBlobInts == 5

\* the perfect mazes tried have at most TreeCells cells
TreeCells == 9

\* getNextThreads is called on the junctions of an open maze of ProbeSide
\* rows and ProbeSide columns
ProbeSide == 3

-----------------------------------------------------------------------------
(* 1. Enums and constants *)

North == 0
East == 1
South == 2
West == 3
Uninitialized == 4

Direction == {North, East, South, West, Uninitialized}
Cardinal == {North, East, South, West}

EAST_BIT == "EAST"
SOUTH_BIT == "SOUTH"
VISITED_BIT == "VISITED"
PATH_BIT == "PATH"
PARENT_NORTH == "PARENT_N"
PARENT_EAST == "PARENT_E"
PARENT_SOUTH == "PARENT_S"
PARENT_WEST == "PARENT_W"
PARENT_MASK == {PARENT_NORTH, PARENT_EAST, PARENT_SOUTH, PARENT_WEST}
ON_STACK_BIT == "ON_STACK"
VISITED_TB == "VISITED_TB"
VISITED_BT == "VISITED_BT"
DEAD_JUNCTION_BIT == "DEAD_JUNCTION"
PRUNED_BIT == "PRUNED"

DeadBit(d) ==
    CASE d = North -> {"DEAD_N"}
      [] d = East -> {"DEAD_E"}
      [] d = South -> {"DEAD_S"}
      [] d = West -> {"DEAD_W"}
      [] OTHER -> {}

OccupiedBit(d) ==
    CASE d = North -> {"OCCUPIED_N"}
      [] d = East -> {"OCCUPIED_E"}
      [] d = South -> {"OCCUPIED_S"}
      [] d = West -> {"OCCUPIED_W"}
      [] OTHER -> {}

ParentBit(d) ==
    CASE d = North -> {PARENT_NORTH}
      [] d = East -> {PARENT_EAST}
      [] d = South -> {PARENT_SOUTH}
      [] d = West -> {PARENT_WEST}
      [] OTHER -> {}

\* JS null (target_pos, backtrack_target, collision_pos, overlap)
Null == <<-9, -9>>

SEARCHING == "SEARCHING"
BACKTRACKING == "BACKTRACKING"
FINISHED == "FINISHED"
NO_SOLUTION == "NO_SOLUTION"
Tokens == {SEARCHING, BACKTRACKING, FINISHED, NO_SOLUTION}

-----------------------------------------------------------------------------
(* 2. Helper classes *)

\* Position.move
Move(p, dir) ==
    CASE dir = North -> <<p[1] - 1, p[2]>>
      [] dir = South -> <<p[1] + 1, p[2]>>
      [] dir = East -> <<p[1], p[2] + 1>>
      [] dir = West -> <<p[1], p[2] - 1>>
      [] OTHER -> p

reverseDir(d) ==
    CASE d = North -> South
      [] d = South -> North
      [] d = East -> West
      [] d = West -> East
      [] OTHER -> Uninitialized

-----------------------------------------------------------------------------
(* 4. Maze and shared data.  Operators take the cell array (md) they read  *)
(* or update, so that one action can chain several writes.                 *)

Size == width * height
Grid == (0 .. height - 1) \X (0 .. width - 1)

cellIndex(pos) == pos[1] * width + pos[2]

InBounds(pos) ==
    pos[1] >= 0 /\ pos[1] < height /\ pos[2] >= 0 /\ pos[2] < width

getStart == <<0, width \div 2>>
getEnd == <<height - 1, width \div 2>>

getCell(md, pos) == IF InBounds(pos) THEN md[cellIndex(pos)] ELSE {}

\* a typed-array store outside 0 .. length-1 is dropped
setCell(md, pos, value) ==
    IF cellIndex(pos) \in DOMAIN md
    THEN [md EXCEPT ![cellIndex(pos)] = value]
    ELSE md

hasFlag(md, pos, val) == getCell(md, pos) \cap val # {}
setFlag(md, pos, val) == setCell(md, pos, getCell(md, pos) \cup val)
clearFlag(md, pos, val) == setCell(md, pos, getCell(md, pos) \ val)

setVisitOrder(vo, pos, order) ==
    IF cellIndex(pos) \in DOMAIN vo
    THEN [vo EXCEPT ![cellIndex(pos)] = order]
    ELSE vo

\* only called on positions reached through canMove, which are in the grid
getVisitOrder(vo, pos) == vo[cellIndex(pos)]

\* the bits of 0xFFFF000 (bits 12 to 27) that the program uses
HighBits ==
    {"DEAD_N", "DEAD_E", "DEAD_S", "DEAD_W",
     "OCCUPIED_N", "OCCUPIED_E", "OCCUPIED_S", "OCCUPIED_W",
     VISITED_TB, VISITED_BT, DEAD_JUNCTION_BIT, PRUNED_BIT}

\* the bits that the mask of Reset clears
ResetBits ==
    {VISITED_BIT, PATH_BIT} \cup PARENT_MASK \cup {ON_STACK_BIT, PRUNED_BIT}
        \cup HighBits

\* Reset with the mask 0xFF000 in place of 0xFFFF000
M_Reset_NarrowMask(md) ==
    [i \in DOMAIN md |->
        md[i] \ (({VISITED_BIT, PATH_BIT} \cup PARENT_MASK
                    \cup {ON_STACK_BIT, PRUNED_BIT})
                 \cup {"DEAD_N", "DEAD_E", "DEAD_S", "DEAD_W", "OCCUPIED_N",
                       "OCCUPIED_E", "OCCUPIED_S", "OCCUPIED_W"})]

\* Maze.Reset: the cell words
Reset(md) == [i \in DOMAIN md |-> md[i] \ ResetBits]

\* Maze.Reset: the visit-order array, and the ownership map after clear()
ResetVisitOrder(vo) == [i \in DOMAIN vo |-> -1]
ResetOwnership(own) == [i \in DOMAIN own |-> -1]

\* canMove with the West case reading the wall bit of the cell itself
M_canMove_WestOwnWall(md, pos, direction) ==
    CASE direction = North ->
            IF pos[1] = 0 THEN FALSE
            ELSE ~hasFlag(md, Move(pos, North), {SOUTH_BIT})
      [] direction = South ->
            IF pos[1] = height - 1 THEN FALSE
            ELSE ~hasFlag(md, pos, {SOUTH_BIT})
      [] direction = East ->
            IF pos[2] = width - 1 THEN FALSE
            ELSE ~hasFlag(md, pos, {EAST_BIT})
      [] direction = West ->
            IF pos[2] = 0 THEN FALSE
            ELSE ~hasFlag(md, pos, {EAST_BIT})
      [] OTHER -> FALSE

canMove(md, pos, direction) ==
    CASE direction = North ->
            IF pos[1] = 0 THEN FALSE
            ELSE ~hasFlag(md, Move(pos, North), {SOUTH_BIT})
      [] direction = South ->
            IF pos[1] = height - 1 THEN FALSE
            ELSE ~hasFlag(md, pos, {SOUTH_BIT})
      [] direction = East ->
            IF pos[2] = width - 1 THEN FALSE
            ELSE ~hasFlag(md, pos, {EAST_BIT})
      [] direction = West ->
            IF pos[2] = 0 THEN FALSE
            ELSE ~hasFlag(md, Move(pos, West), {EAST_BIT})
      [] OTHER -> FALSE

isJunction(md, pos) ==
    Cardinality({d \in Cardinal : canMove(md, pos, d)}) > 2

\* setDirectionRouteBT whose if-chain lacks the case of Direction.South
M_setDirectionRouteBT_NoSouth(md, pos, parent_dir) ==
    setCell(md, pos,
        ((getCell(md, pos) \ PARENT_MASK) \cup {VISITED_BIT})
            \cup (IF parent_dir = South THEN {} ELSE ParentBit(parent_dir)))

\* setDirectionRouteBT without the clearing of the PARENT bits
M_setDirectionRouteBT_NoClear(md, pos, parent_dir) ==
    setCell(md, pos,
        (getCell(md, pos) \cup {VISITED_BIT}) \cup ParentBit(parent_dir))

setDirectionRouteBT(md, pos, parent_dir) ==
    setCell(md, pos,
        ((getCell(md, pos) \ PARENT_MASK) \cup {VISITED_BIT})
            \cup ParentBit(parent_dir))

getDirectionRouteBT(md, pos) ==
    LET val == getCell(md, pos) IN
    IF PARENT_NORTH \in val THEN North
    ELSE IF PARENT_EAST \in val THEN East
    ELSE IF PARENT_SOUTH \in val THEN South
    ELSE IF PARENT_WEST \in val THEN West
    ELSE Uninitialized

\* markPath that stores the flag instead of or-ing it in
M_markPath_Overwrites(md, pos) == setCell(md, pos, {PATH_BIT})

markPath(md, pos) == setFlag(md, pos, {PATH_BIT})

markOnStack(md, pos, on_stack) ==
    IF on_stack THEN setFlag(md, pos, {ON_STACK_BIT})
    ELSE clearFlag(md, pos, {ON_STACK_BIT})

checkBranchDead(md, pos, dir) == hasFlag(md, pos, DeadBit(dir))
setBranchDeadFromOrigin(md, pos, dir) == setFlag(md, pos, DeadBit(dir))
checkBranchOccupied(md, pos, dir) == hasFlag(md, pos, OccupiedBit(dir))
setBranchOccupied(md, pos, dir) == setFlag(md, pos, OccupiedBit(dir))

\* markVisitedTeam with the two team bits exchanged
M_markVisitedTeam_Swapped(md, pos, is_tb) ==
    IF is_tb THEN setFlag(md, pos, {VISITED_BT})
    ELSE setFlag(md, pos, {VISITED_TB})

markVisitedTeam(md, pos, is_tb) ==
    IF is_tb THEN setFlag(md, pos, {VISITED_TB})
    ELSE setFlag(md, pos, {VISITED_BT})

markDeadJunction(md, pos) ==
    setFlag(clearFlag(clearFlag(md, pos, {VISITED_TB}), pos, {VISITED_BT}),
            pos, {DEAD_JUNCTION_BIT})

unmarkVisitedTeam(md, pos) ==
    clearFlag(clearFlag(clearFlag(md, pos, {VISITED_TB}), pos, {VISITED_BT}),
              pos, {VISITED_BIT})

isVisitedByTeam(md, pos, is_tb) ==
    IF is_tb THEN hasFlag(md, pos, {VISITED_TB})
    ELSE hasFlag(md, pos, {VISITED_BT})

\* Map.set: positions written are in the grid (they are claimed cells)
setThreadOwner(own, pos, thread_id) ==
    IF cellIndex(pos) \in DOMAIN own
    THEN [own EXCEPT ![cellIndex(pos)] = thread_id]
    ELSE own

getThreadOwner(own, pos) ==
    IF cellIndex(pos) \in DOMAIN own THEN own[cellIndex(pos)] ELSE -1

markPruned(md, pos) == setFlag(md, pos, {PRUNED_BIT})
\* isPruned with the test negated
M_isPruned_Negated(md, pos) == ~hasFlag(md, pos, {PRUNED_BIT})

isPruned(md, pos) == hasFlag(md, pos, {PRUNED_BIT})

\* the sequence of the elements of s that satisfy Keep, order kept
RECURSIVE FilterDirs(_, _, _)
FilterDirs(md, pos, s) ==
    IF s = <<>> THEN <<>>
    ELSE LET d == Head(s)
             rest == FilterDirs(md, pos, Tail(s))
         IN IF canMove(md, pos, d) /\ ~isPruned(md, Move(pos, d))
            THEN <<d>> \o rest
            ELSE rest

\* getAvailableMovesNoPruned that never offers the move to the south
M_getAvailableMovesNoPruned_NoSouth(md, pos) ==
    FilterDirs(md, pos, <<North, East, West>>)

getAvailableMovesNoPruned(md, pos) ==
    FilterDirs(md, pos, <<North, South, East, West>>)

-----------------------------------------------------------------------------
(* Maze.Load.  A blob is the ArrayBuffer fetched: ints are its whole 32-bit *)
(* little-endian integers in order, tail the number of bytes (0 .. 3) that  *)
(* follow the last whole integer.                                           *)

byteLength(blob) == 4 * Len(blob.ints) + blob.tail

\* view.getInt32(offset, true) for an offset that is a multiple of 4
getInt32(blob, offset) == blob.ints[offset \div 4 + 1]

\* DataView.getInt32 throws a RangeError when the 4 bytes are not all there
getInt32Throws(blob, offset) == offset + 4 > byteLength(blob)

\* what Load leaves behind: how it ended and the fields of the Maze
LoadResult(outcome, w, h, md, vo) ==
    [outcome |-> outcome, width |-> w, height |-> h, md |-> md, vo |-> vo]

\* the for-loop over the 16 cells of one word, from iteration i on; the
\* result is [md, col]
RECURSIVE LoadWord(_, _, _, _, _, _)
LoadWord(md, w, row, col, bits, i) ==
    IF i = 16 \/ col >= w THEN [md |-> md, col |-> col]
    ELSE LET east == bits % 2
             south == (bits \div 2) % 2
             val == (IF east # 0 THEN {EAST_BIT} ELSE {})
                        \cup (IF south # 0 THEN {SOUTH_BIT} ELSE {})
         IN LoadWord([md EXCEPT ![row * w + col] = val], w, row, col + 1,
                     bits \div 4, i + 1)

\* the loops over rows and over the words of a row, from (row, col) on with
\* the read offset at `offset`
RECURSIVE LoadRows(_, _, _, _, _, _, _, _)
LoadRows(blob, w, h, row, col, offset, md, vo) ==
    IF row >= h THEN LoadResult("ok", w, h, md, vo)
    ELSE IF col >= w \/ offset >= byteLength(blob)
    THEN LoadRows(blob, w, h, row + 1, 0, offset, md, vo)
    ELSE IF getInt32Throws(blob, offset)
    THEN LoadResult("RangeError", w, h, md, vo)
    ELSE LET r == LoadWord(md, w, row, col, getInt32(blob, offset), 0)
         IN LoadRows(blob, w, h, row, r.col, offset + 4, r.md, vo)

\* Maze.Load on a Maze whose fields are w0, h0, md0, vo0
Load(blob, w0, h0, md0, vo0) ==
    IF getInt32Throws(blob, 0) THEN LoadResult("RangeError", w0, h0, md0, vo0)
    ELSE LET w == getInt32(blob, 0) IN
    IF getInt32Throws(blob, 4) THEN LoadResult("RangeError", w, h0, md0, vo0)
    ELSE LET h == getInt32(blob, 4) IN
    IF getInt32Throws(blob, 8) THEN LoadResult("RangeError", w, h, md0, vo0)
    ELSE LET size == w * h IN
    \* new Int32Array(size) throws a RangeError for a negative length
    IF size < 0 THEN LoadResult("RangeError", w, h, md0, vo0)
    ELSE LoadRows(blob, w, h, 0, 0, 12,
                  [i \in 0 .. size - 1 |-> {}], [i \in 0 .. size - 1 |-> -1])

-----------------------------------------------------------------------------
(* Token history: what the claims about the token sequence need of it. *)

NoHist == [last |-> "", count |-> 0, backtracked |-> FALSE,
           terminals |-> 0, misordered |-> FALSE, seq |-> <<>>]

\* the history after the generator yields token t
Yield(h, t) ==
    [last |-> t,
     count |-> IF h.count < 2 THEN h.count + 1 ELSE h.count,
     backtracked |-> h.backtracked \/ t = BACKTRACKING,
     terminals |-> IF t \in {FINISHED, NO_SOLUTION} /\ h.terminals < 2
                   THEN h.terminals + 1 ELSE h.terminals,
     misordered |-> \/ h.misordered
                    \/ t \notin Tokens
                    \/ h.terminals > 0
                    \/ (t = SEARCHING /\ h.backtracked)
                    \/ (t = NO_SOLUTION /\ h.backtracked),
     \* the whole sequence, kept for the two solvers whose runs always end
     seq |-> IF algorithm \in {"BFS", "DFS"} THEN Append(h.seq, t) ELSE <<>>]

-----------------------------------------------------------------------------
(* Idle values of the solver variables (the solver is not the one running) *)

NoBFS == [q |-> <<>>, visit_counter |-> 0, found |-> FALSE, curr |-> Null]
NoDFS == [stack |-> <<>>, visit_counter |-> 0, found |-> FALSE, curr |-> Null]

-----------------------------------------------------------------------------
(* 5. Solvers: BFSSolver.solve_step_by_step *)

BFSDirs == <<South, West, East, North>>

\* ParentDir without the reversal
M_ParentDir_NotReversed(d) == d

\* the if-chain that turns the direction of a move into the parent direction
\* stored on the cell moved to
ParentDir(d) ==
    CASE d = North -> South
      [] d = South -> North
      [] d = East -> West
      [] d = West -> East
      [] OTHER -> Uninitialized

\* BFSExpand that increments visit_counter before storing it
RECURSIVE M_BFSExpand_PreIncrement(_, _, _)
M_BFSExpand_PreIncrement(st, cur, dirs) ==
    IF dirs = <<>> THEN st
    ELSE LET d == Head(dirs)
             nextPos == Move(cur, d)
         IN IF canMove(st.md, cur, d) /\ getVisitOrder(st.vo, nextPos) = -1
            THEN M_BFSExpand_PreIncrement(
                    [md |-> setDirectionRouteBT(st.md, nextPos, ParentDir(d)),
                     vo |-> setVisitOrder(st.vo, nextPos, st.vc + 1),
                     q |-> Append(st.q, nextPos),
                     vc |-> st.vc + 1],
                    cur, Tail(dirs))
            ELSE M_BFSExpand_PreIncrement(st, cur, Tail(dirs))

\* BFSExpand that puts a discovered cell at the front of the queue
RECURSIVE M_BFSExpand_Prepends(_, _, _)
M_BFSExpand_Prepends(st, cur, dirs) ==
    IF dirs = <<>> THEN st
    ELSE LET d == Head(dirs)
             nextPos == Move(cur, d)
         IN IF canMove(st.md, cur, d) /\ getVisitOrder(st.vo, nextPos) = -1
            THEN M_BFSExpand_Prepends(
                    [md |-> setDirectionRouteBT(st.md, nextPos, ParentDir(d)),
                     vo |-> setVisitOrder(st.vo, nextPos, st.vc),
                     q |-> <<nextPos>> \o st.q,
                     vc |-> st.vc + 1],
                    cur, Tail(dirs))
            ELSE M_BFSExpand_Prepends(st, cur, Tail(dirs))

\* the for-loop over dirs of one dequeue step; st = [md, vo, q, vc]
RECURSIVE BFSExpand(_, _, _)
BFSExpand(st, cur, dirs) ==
    IF dirs = <<>> THEN st
    ELSE LET d == Head(dirs)
             nextPos == Move(cur, d)
         IN IF canMove(st.md, cur, d) /\ getVisitOrder(st.vo, nextPos) = -1
            THEN BFSExpand(
                    [md |-> setDirectionRouteBT(st.md, nextPos, ParentDir(d)),
                     vo |-> setVisitOrder(st.vo, nextPos, st.vc),
                     q |-> Append(st.q, nextPos),
                     vc |-> st.vc + 1],
                    cur, Tail(dirs))
            ELSE BFSExpand(st, cur, Tail(dirs))

\* first resumption: set-up, then the first yield of the search loop
BFSStart ==
    /\ algorithm = "BFS" /\ pc = "start"
    /\ visitOrder' = setVisitOrder(visitOrder, getStart, 0)
    /\ poMazeData' = setDirectionRouteBT(poMazeData, getStart, Uninitialized)
    /\ bfs' = [q |-> <<getStart>>, visit_counter |-> 1, found |-> FALSE,
               curr |-> Null]
    /\ hist' = Yield(hist, SEARCHING)
    /\ pc' = "bfs_search"
    /\ tick' = 1 - tick
    /\ UNCHANGED <<mazeVars, userVars, thread_ownership, algorithm, dfs, m2, m1>>

\* resumed after SEARCHING: one dequeue step, up to the next yield
BFSSearch ==
    /\ algorithm = "BFS" /\ pc = "bfs_search"
    /\ LET cur == Head(bfs.q)
           q1 == Tail(bfs.q)
       IN IF cur = getEnd
          THEN \* found: first iteration of the path-marking loop
               /\ poMazeData' = markPath(poMazeData, getEnd)
               /\ bfs' = [bfs EXCEPT !.q = q1, !.found = TRUE, !.curr = getEnd]
               /\ hist' = Yield(hist, BACKTRACKING)
               /\ pc' = "bfs_back"
               /\ UNCHANGED visitOrder
          ELSE LET st == BFSExpand([md |-> poMazeData, vo |-> visitOrder,
                                    q |-> q1, vc |-> bfs.visit_counter],
                                   cur, BFSDirs)
               IN /\ poMazeData' = st.md
                  /\ visitOrder' = st.vo
                  /\ bfs' = [bfs EXCEPT !.q = st.q, !.visit_counter = st.vc]
                  /\ IF Len(st.q) > 0
                     THEN /\ hist' = Yield(hist, SEARCHING)
                          /\ pc' = "bfs_search"
                     ELSE /\ hist' = Yield(hist, NO_SOLUTION)
                          /\ pc' = "done"
    /\ tick' = 1 - tick
    /\ UNCHANGED <<mazeVars, userVars, thread_ownership, algorithm, dfs, m2, m1>>

\* resumed after BACKTRACKING: follow the parent pointer of curr
BFSBacktrack ==
    /\ algorithm = "BFS" /\ pc = "bfs_back"
    /\ LET parent_dir == getDirectionRouteBT(poMazeData, bfs.curr) IN
       IF bfs.curr = getStart \/ parent_dir = Uninitialized
       THEN /\ hist' = Yield(hist, FINISHED)
            /\ pc' = "done"
            /\ UNCHANGED <<poMazeData, bfs>>
       ELSE /\ poMazeData' = markPath(poMazeData, Move(bfs.curr, parent_dir))
            /\ bfs' = [bfs EXCEPT !.curr = Move(bfs.curr, parent_dir)]
            /\ hist' = Yield(hist, BACKTRACKING)
            /\ pc' = "bfs_back"
    /\ tick' = 1 - tick
    /\ UNCHANGED <<mazeVars, userVars, visitOrder, thread_ownership, algorithm, dfs, m2, m1>>

-----------------------------------------------------------------------------
(* DFSSolver.solve_step_by_step *)

DFSDirs == <<South, East, West, North>>

\* the first direction of dirs that leads to an unvisited cell, else Uninitialized
RECURSIVE DFSFirstOpen(_, _, _, _)
DFSFirstOpen(md, vo, pos, dirs) ==
    IF dirs = <<>> THEN Uninitialized
    ELSE IF canMove(md, pos, Head(dirs))
            /\ getVisitOrder(vo, Move(pos, Head(dirs))) = -1
         THEN Head(dirs)
         ELSE DFSFirstOpen(md, vo, pos, Tail(dirs))

DFSTop(stack) == stack[Len(stack)]
DFSPop(stack) == SubSeq(stack, 1, Len(stack) - 1)

DFSStart ==
    /\ algorithm = "DFS" /\ pc = "start"
    /\ visitOrder' = setVisitOrder(visitOrder, getStart, 0)
    /\ poMazeData' = setDirectionRouteBT(
                        markOnStack(poMazeData, getStart, TRUE),
                        getStart, Uninitialized)
    /\ dfs' = [stack |-> << <<getStart, Uninitialized>> >>,
               visit_counter |-> 1, found |-> FALSE, curr |-> Null]
    /\ hist' = Yield(hist, SEARCHING)
    /\ pc' = "dfs_search"
    /\ tick' = 1 - tick
    /\ UNCHANGED <<mazeVars, userVars, thread_ownership, algorithm, bfs, m2, m1>>

\* DFSPopCell that leaves ON_STACK set on the popped cell
M_DFSPopCell_KeepsOnStack(md, p) ==
    LET md1 == clearFlag(md, p, {VISITED_BIT})
    IN IF isJunction(md1, p) THEN markDeadJunction(md1, p) ELSE md1

\* the cell store after the stack top p is popped
DFSPopCell(md, p) ==
    LET md1 == clearFlag(markOnStack(md, p, FALSE), p, {VISITED_BIT})
    IN IF isJunction(md1, p) THEN markDeadJunction(md1, p) ELSE md1

\* resumed after SEARCHING: one loop body, up to the next yield
DFSSearch ==
    /\ algorithm = "DFS" /\ pc = "dfs_search"
    /\ LET curr == DFSTop(dfs.stack)[1]
           d == DFSFirstOpen(poMazeData, visitOrder, curr, DFSDirs)
           nextPos == Move(curr, d)
           \* the second scan of the stack top made when nothing moved
           has_opts == DFSFirstOpen(poMazeData, visitOrder, curr, DFSDirs)
                            # Uninitialized
           popped == DFSPop(dfs.stack)
       IN IF curr = getEnd
          THEN /\ poMazeData' = markPath(poMazeData, getEnd)
               /\ dfs' = [dfs EXCEPT !.found = TRUE, !.curr = getEnd]
               /\ hist' = Yield(hist, BACKTRACKING)
               /\ pc' = "dfs_back"
               /\ UNCHANGED visitOrder
          ELSE IF d # Uninitialized
          THEN /\ visitOrder' = setVisitOrder(visitOrder, nextPos,
                                              dfs.visit_counter)
               /\ poMazeData' = setDirectionRouteBT(
                                    markOnStack(poMazeData, nextPos, TRUE),
                                    nextPos, ParentDir(d))
               /\ dfs' = [dfs EXCEPT
                            !.stack = Append(@, <<nextPos, ParentDir(d)>>),
                            !.visit_counter = @ + 1]
               /\ hist' = Yield(hist, SEARCHING)
               /\ pc' = "dfs_search"
          ELSE IF has_opts
          THEN /\ hist' = Yield(hist, SEARCHING)
               /\ pc' = "dfs_search"
               /\ UNCHANGED <<poMazeData, visitOrder, dfs>>
          ELSE /\ poMazeData' = DFSPopCell(poMazeData, curr)
               /\ dfs' = [dfs EXCEPT !.stack = popped]
               /\ UNCHANGED visitOrder
               /\ IF Len(popped) > 0
                  THEN /\ hist' = Yield(hist, SEARCHING)
                       /\ pc' = "dfs_search"
                  ELSE /\ hist' = Yield(hist, NO_SOLUTION)
                       /\ pc' = "done"
    /\ tick' = 1 - tick
    /\ UNCHANGED <<mazeVars, userVars, thread_ownership, algorithm, bfs, m2, m1>>

DFSBacktrack ==
    /\ algorithm = "DFS" /\ pc = "dfs_back"
    /\ LET parent_dir == getDirectionRouteBT(poMazeData, dfs.curr) IN
       IF dfs.curr = getStart \/ parent_dir = Uninitialized
       THEN /\ hist' = Yield(hist, FINISHED)
            /\ pc' = "done"
            /\ UNCHANGED <<poMazeData, dfs>>
       ELSE /\ poMazeData' = markPath(poMazeData, Move(dfs.curr, parent_dir))
            /\ dfs' = [dfs EXCEPT !.curr = Move(dfs.curr, parent_dir)]
            /\ hist' = Yield(hist, BACKTRACKING)
            /\ pc' = "dfs_back"
    /\ tick' = 1 - tick
    /\ UNCHANGED <<mazeVars, userVars, visitOrder, thread_ownership, algorithm, bfs, m2, m1>>

-----------------------------------------------------------------------------
(* Branches: directions is the 4-slot array (slot i of the code is         *)
(* directions[i + 1]), count the live slots, index the rotating cursor.    *)

SlotDirs == <<North, East, South, West>>

\* new Branches(maze, pos, threadID)
NewBranches(md, pos, threadID) ==
    LET directions == [i \in 1 .. 4 |->
                          IF canMove(md, pos, SlotDirs[i]) THEN SlotDirs[i]
                          ELSE Uninitialized]
    IN [directions |-> directions,
        count |-> Cardinality({i \in 1 .. 4 : directions[i] # Uninitialized}),
        index |-> threadID % 4]

\* Branches.remove
BranchesRemove(b, d) ==
    LET hits == {i \in 1 .. 4 : b.directions[i] = d} IN
    IF hits = {} THEN b
    ELSE LET i == CHOOSE k \in hits : \A j \in hits : k <= j
         IN [b EXCEPT !.directions[i] = Uninitialized, !.count = @ - 1]

\* the for-loop of getNextThreads from iteration i on; result [b, md, d]
RECURSIVE GetNextThreadsLoop(_, _, _, _, _)
GetNextThreadsLoop(b, md, at, i, fallbackIndex) ==
    IF i = 4
    THEN IF fallbackIndex # -1
         THEN [b |-> [b EXCEPT !.index = fallbackIndex], md |-> md,
               d |-> b.directions[fallbackIndex + 1]]
         ELSE [b |-> b, md |-> md, d |-> Uninitialized]
    ELSE LET idx == (b.index + 1) % 4
             b1 == [b EXCEPT !.index = idx]
             d == b.directions[idx + 1]
         IN IF d = Uninitialized
            THEN GetNextThreadsLoop(b1, md, at, i + 1, fallbackIndex)
            ELSE IF checkBranchDead(md, at, d)
            THEN LET b2 == [b1 EXCEPT !.directions[idx + 1] = Uninitialized,
                                      !.count = @ - 1]
                 IN IF b2.count = 0
                    THEN [b |-> b2, md |-> md, d |-> Uninitialized]
                    ELSE GetNextThreadsLoop(b2, md, at, i + 1, fallbackIndex)
            ELSE LET fb == IF fallbackIndex = -1 THEN idx ELSE fallbackIndex
                 IN IF checkBranchOccupied(md, at, d)
                    THEN GetNextThreadsLoop(b1, md, at, i + 1, fb)
                    ELSE [b |-> b1, md |-> setBranchOccupied(md, at, d),
                          d |-> d]

\* getNextThreads without the soft fallback: a branch that was not newly
\* marked occupied is not handed out
M_getNextThreads_NoFallback(b, at, md) ==
    IF b.count = 0 THEN [b |-> b, md |-> md, d |-> Uninitialized]
    ELSE LET r == GetNextThreadsLoop(b, md, at, 0, -1)
         IN IF r.d # Uninitialized /\ r.md = md
            THEN [b |-> r.b, md |-> md, d |-> Uninitialized]
            ELSE r

\* getNextThreads that looks at no DEAD bit
M_getNextThreads_IgnoresDead(b, at, md) ==
    IF b.count = 0 THEN [b |-> b, md |-> md, d |-> Uninitialized]
    ELSE LET seen == clearFlag(md, at, UNION {DeadBit(d) : d \in Cardinal})
             r == GetNextThreadsLoop(b, seen, at, 0, -1)
         IN [b |-> r.b, d |-> r.d,
             md |-> IF r.md = seen THEN md
                    ELSE setBranchOccupied(md, at, r.d)]

\* Branches.getNextThreads(at, maze); result [b, md, d]
getNextThreads(b, at, md) ==
    IF b.count = 0 THEN [b |-> b, md |-> md, d |-> Uninitialized]
    ELSE GetNextThreadsLoop(b, md, at, 0, -1)

\* popCurrThreads that marks every direction of the cell DEAD
M_popCurrThreads_RetiresAll(b, at, md) ==
    LET d == b.directions[b.index + 1] IN
    IF d # Uninitialized
    THEN [b |-> [b EXCEPT !.directions[b.index + 1] = Uninitialized,
                          !.count = @ - 1],
          md |-> setFlag(md, at, UNION {DeadBit(x) : x \in Cardinal}), d |-> d]
    ELSE [b |-> b, md |-> md, d |-> d]

\* Branches.popCurrThreads(at, maze); result [b, md, d]
popCurrThreads(b, at, md) ==
    LET d == b.directions[b.index + 1] IN
    IF d # Uninitialized
    THEN [b |-> [b EXCEPT !.directions[b.index + 1] = Uninitialized,
                          !.count = @ - 1],
          md |-> setBranchDeadFromOrigin(md, at, d), d |-> d]
    ELSE [b |-> b, md |-> md, d |-> d]

RECURSIVE GetNextLoop(_, _)
GetNextLoop(b, i) ==
    IF i = 4 THEN [b |-> b, d |-> Uninitialized]
    ELSE LET b1 == [b EXCEPT !.index = (b.index + 1) % 4] IN
         IF b1.directions[b1.index + 1] # Uninitialized
         THEN [b |-> b1, d |-> b1.directions[b1.index + 1]]
         ELSE GetNextLoop(b1, i + 1)

\* Branches.getNext(); result [b, d]
getNext(b) ==
    IF b.count = 0 THEN [b |-> b, d |-> Uninitialized]
    ELSE GetNextLoop(b, 0)

Junction(at, came_from, branches) ==
    [at |-> at, came_from |-> came_from, branches |-> branches]

-----------------------------------------------------------------------------
(* DFSThread (MT-M2 walker) *)

\* new DFSThread(threadID, is_tb, start_pos, maze)
NewDFSThread(threadID, is_tb, start_pos, md) ==
    [id |-> threadID, is_tb |-> is_tb,
     stack |-> <<Junction(start_pos, Uninitialized,
                          NewBranches(md, start_pos, threadID))>>,
     finished |-> FALSE, state |-> 0, target_pos |-> Null,
     corridor_dir |-> Uninitialized, backtrack_target |-> Null]

Top(stack) == stack[Len(stack)]
Pop(stack) == SubSeq(stack, 1, Len(stack) - 1)

StepResult(t, md, own, res) == [t |-> t, md |-> md, own |-> own, res |-> res]

\* Collision in which only the top-down walkers look for the other team
M_Collision_TBOnly(t, md, pos) ==
    t.is_tb /\ (pos = getEnd \/ isVisitedByTeam(md, pos, FALSE))

\* the collision test made before a walker claims cell pos
Collision(t, md, pos) ==
    IF t.is_tb
    THEN pos = getEnd \/ isVisitedByTeam(md, pos, FALSE)
    ELSE isVisitedByTeam(md, pos, TRUE)

\* STATE 0: junction processing
StepJunction(t, md, own) ==
    LET junc == Top(t.stack) IN
    IF Collision(t, md, junc.at)
    THEN StepResult(t, md, own, "FOUND_TARGET")
    ELSE LET md1 == markVisitedTeam(md, junc.at, t.is_tb)
             own1 == setThreadOwner(own, junc.at, t.id)
             nx == IF junc.branches.count > 0
                   THEN getNextThreads(junc.branches, junc.at, md1)
                   ELSE [b |-> junc.branches, md |-> md1, d |-> Uninitialized]
             stack1 == [t.stack EXCEPT ![Len(t.stack)].branches = nx.b]
         IN IF nx.d = Uninitialized
            THEN LET stack2 == Pop(stack1)
                     md2 == IF isJunction(nx.md, junc.at)
                            THEN markDeadJunction(nx.md, junc.at)
                            ELSE unmarkVisitedTeam(nx.md, junc.at)
                 IN IF Len(stack2) > 0
                    THEN LET parent == Top(stack2)
                             pp == popCurrThreads(parent.branches, parent.at, md2)
                         IN StepResult(
                                [t EXCEPT
                                   !.stack = [stack2 EXCEPT
                                                ![Len(stack2)].branches = pp.b],
                                   !.backtrack_target = parent.at,
                                   !.target_pos = junc.at,
                                   !.state = 2],
                                pp.md, own1, "CONTINUE")
                    ELSE StepResult([t EXCEPT !.stack = stack2],
                                    md2, own1, "DEAD")
            ELSE StepResult([t EXCEPT !.stack = stack1, !.state = 1,
                                      !.corridor_dir = nx.d,
                                      !.target_pos = junc.at],
                            nx.md, own1, "CONTINUE")

\* StepCorridor that claims the cell before it reports the collision
M_StepCorridor_ClaimsOnCollision(t, md, own) ==
    LET next_p == Move(t.target_pos, t.corridor_dir)
        parent_rev == reverseDir(t.corridor_dir)
        md1 == setDirectionRouteBT(markVisitedTeam(md, next_p, t.is_tb),
                                   next_p, parent_rev)
        own1 == setThreadOwner(own, next_p, t.id)
        branches == BranchesRemove(NewBranches(md1, next_p, t.id), parent_rev)
    IN IF Collision(t, md, next_p)
       THEN StepResult(
                [t EXCEPT !.target_pos = next_p,
                          !.stack = Append(@, Junction(next_p, parent_rev,
                                             NewBranches(md1, next_p, t.id)))],
                md1, own1, "FOUND_TARGET")
       ELSE IF branches.count # 1
       THEN StepResult(
                [t EXCEPT !.target_pos = next_p,
                          !.stack = Append(@, Junction(next_p, parent_rev,
                                                       branches)),
                          !.state = 0],
                md1, own1, "CONTINUE")
       ELSE StepResult(
                [t EXCEPT !.target_pos = next_p,
                          !.corridor_dir = getNext(branches).d],
                md1, own1, "CONTINUE")

\* STATE 1: corridor movement
StepCorridor(t, md, own) ==
    LET next_p == Move(t.target_pos, t.corridor_dir)
        parent_rev == reverseDir(t.corridor_dir)
    IN IF Collision(t, md, next_p)
       THEN StepResult(
                [t EXCEPT !.target_pos = next_p,
                          !.stack = Append(@, Junction(next_p, parent_rev,
                                             NewBranches(md, next_p, t.id)))],
                md, own, "FOUND_TARGET")
       ELSE LET md1 == setDirectionRouteBT(
                            markVisitedTeam(md, next_p, t.is_tb),
                            next_p, parent_rev)
                own1 == setThreadOwner(own, next_p, t.id)
                branches == BranchesRemove(NewBranches(md1, next_p, t.id),
                                           parent_rev)
            IN IF branches.count # 1
               THEN StepResult(
                        [t EXCEPT !.target_pos = next_p,
                                  !.stack = Append(@, Junction(next_p,
                                                     parent_rev, branches)),
                                  !.state = 0],
                        md1, own1, "CONTINUE")
               ELSE StepResult(
                        [t EXCEPT !.target_pos = next_p,
                                  !.corridor_dir = getNext(branches).d],
                        md1, own1, "CONTINUE")

\* STATE 2: backtracking
StepBacktrack(t, md, own) ==
    LET md1 == IF ~isJunction(md, t.target_pos)
               THEN unmarkVisitedTeam(md, t.target_pos)
               ELSE md
        parent_dir == getDirectionRouteBT(md1, t.target_pos)
    IN IF t.target_pos = t.backtrack_target \/ parent_dir = Uninitialized
       THEN StepResult([t EXCEPT !.state = 0], md1, own, "CONTINUE")
       ELSE StepResult([t EXCEPT !.target_pos = Move(t.target_pos, parent_dir)],
                       md1, own, "CONTINUE")

\* DFSThread.step(); result [t, md, own, res]
DFSThreadStep(t, md, own) ==
    IF t.finished \/ Len(t.stack) = 0 THEN StepResult(t, md, own, "DEAD")
    ELSE IF t.state = 0 THEN StepJunction(t, md, own)
    ELSE IF t.state = 1 THEN StepCorridor(t, md, own)
    ELSE IF t.state = 2 THEN StepBacktrack(t, md, own)
    ELSE StepResult(t, md, own, "DEAD")

-----------------------------------------------------------------------------
(* MTSolver.solve_step_by_step (MT-M2).  m2.turn is the position of the    *)
(* for-loop over this.threads; stack_idx is kept 1-based (stack_idx of the *)
(* code + 1).                                                              *)

NoM2 == [threads |-> <<>>, found |-> FALSE, collision_pos |-> Null,
         active_threads |-> 0, turn |-> 0, path_tb |-> <<>>, i |-> 0,
         bt |-> -1, stack_idx |-> 0, curr |-> Null,
         jump_dir |-> Uninitialized,
         \* history of the round under way: the cells that carried a team
         \* bit when it began, the walkers stepped so far, the cell each of
         \* them moved onto in CORRIDOR state, the walkers that claimed the
         \* cell they moved onto, those whose step changed the cell store
         round_teams |-> {}, stepped |-> {}, moved |-> <<>>,
         claimed |-> {}, wrote |-> {},
         \* history of the BACKTRACK walks: the number of steps each walker
         \* has made in BACKTRACK state since it last entered it, and the
         \* walkers that left it elsewhere than on backtrack_target, the
         \* cell of their stack top
         bt_steps |-> <<>>, bt_astray |-> {},
         \* history of PART 2: whether a corridor walk has found no next
         \* cell, and the cells that were ON_PATH when the first one did
         lost |-> FALSE, lost_path |-> {}]

ThreadIds == 0 .. 5

\* the cells of md that carry a team bit
TeamCells(md) ==
    {i \in DOMAIN md : md[i] \cap {VISITED_TB, VISITED_BT} # {}}

\* the history of the round after walker t0 was stepped in the cell store md
\* and the ownership table own, with result r
RoundNote(m, t0, md, own, r) ==
    LET next_p == Move(t0.target_pos, t0.corridor_dir)
        isMove == ~t0.finished /\ Len(t0.stack) > 0 /\ t0.state = 1
    IN [m EXCEPT
          !.stepped = @ \cup {t0.id},
          !.moved = IF isMove THEN [@ EXCEPT ![t0.id] = next_p] ELSE @,
          !.claimed = IF /\ isMove
                         /\ r.res # "FOUND_TARGET"
                         /\ isVisitedByTeam(r.md, next_p, t0.is_tb)
                         /\ getThreadOwner(r.own, next_p) = t0.id
                      THEN @ \cup {t0.id} ELSE @,
          !.wrote = IF r.md # md \/ r.own # own THEN @ \cup {t0.id} ELSE @,
          !.bt_steps = IF t0.state = 2 THEN [@ EXCEPT ![t0.id] = @ + 1]
                       ELSE IF r.t.state = 2 THEN [@ EXCEPT ![t0.id] = 0]
                       ELSE @,
          !.bt_astray = IF /\ t0.state = 2 /\ r.t.state = 0
                           /\ ~(/\ r.t.target_pos = r.t.backtrack_target
                                /\ Len(r.t.stack) > 0
                                /\ Top(r.t.stack).at = r.t.backtrack_target)
                        THEN @ \cup {t0.id} ELSE @]

\* the history at the beginning of a round
RoundBegin(m, md) ==
    [m EXCEPT !.round_teams = TeamCells(md), !.stepped = {},
              !.moved = [i \in ThreadIds |-> Null],
              !.claimed = {}, !.wrote = {}]

\* the next thread after k that the for-loop steps (it skips finished ones)
NextTurn(threads, k) ==
    LET later == {j \in ThreadIds : j > k /\ ~threads[j].finished} IN
    IF later = {} THEN 6 ELSE CHOOSE j \in later : \A x \in later : j <= x

\* first resumption: the walkers are created, Start and End are claimed
M2Start ==
    /\ algorithm = "MT_M2" /\ pc = "start"
    /\ LET threads == [i \in ThreadIds |->
                          IF i < 3
                          THEN NewDFSThread(i, TRUE, getStart, poMazeData)
                          ELSE NewDFSThread(i, FALSE, getEnd, poMazeData)]
       IN /\ poMazeData' = markVisitedTeam(
                               markVisitedTeam(poMazeData, getStart, TRUE),
                               getEnd, FALSE)
          /\ m2' = RoundBegin([NoM2 EXCEPT !.threads = threads,
                                            !.bt_steps = [i \in ThreadIds |-> 0]],
                               poMazeData')
          /\ thread_ownership' = setThreadOwner(
                                    setThreadOwner(thread_ownership, getStart, 0),
                                    getEnd, 3)
    /\ pc' = "m2_round"
    /\ tick' = 1 - tick
    /\ UNCHANGED <<mazeVars, userVars, visitOrder, algorithm, hist, bfs, dfs, m1>>

\* one iteration of the for-loop of a round: thread m2.turn is stepped; the
\* iteration that ends the round runs on to the yield of SEARCHING
M2Step ==
    /\ algorithm = "MT_M2" /\ pc = "m2_round"
    /\ Len(m2.threads[m2.turn].stack) <= MaxStack
    /\ LET r == DFSThreadStep(m2.threads[m2.turn], poMazeData, thread_ownership)
           nt == NextTurn(m2.threads, m2.turn)
       IN /\ poMazeData' = r.md
          /\ thread_ownership' = r.own
          /\ IF r.res = "FOUND_TARGET"
             THEN /\ m2' = RoundNote(
                            [m2 EXCEPT
                               !.threads[m2.turn] = r.t,
                               !.found = TRUE,
                               !.collision_pos = IF Len(r.t.stack) > 0
                                                 THEN r.t.target_pos ELSE @],
                            m2.threads[m2.turn], poMazeData,
                            thread_ownership, r)
                  /\ hist' = Yield(hist, SEARCHING)
                  /\ pc' = "m2_yielded"
             ELSE /\ m2' = RoundNote(
                            [m2 EXCEPT
                               !.threads[m2.turn] =
                                   IF r.res = "DEAD"
                                   THEN [r.t EXCEPT !.finished = TRUE] ELSE r.t,
                               !.active_threads =
                                   IF r.res = "DEAD" THEN @ ELSE @ + 1,
                               !.turn = IF nt < 6 THEN nt ELSE @],
                            m2.threads[m2.turn], poMazeData,
                            thread_ownership, r)
                  /\ IF nt < 6
                     THEN /\ pc' = "m2_round"
                          /\ UNCHANGED hist
                     ELSE /\ hist' = Yield(hist, SEARCHING)
                          /\ pc' = "m2_yielded"
    /\ tick' = 1 - tick
    /\ UNCHANGED <<mazeVars, userVars, visitOrder, algorithm, bfs, dfs, m1>>

\* resumed after SEARCHING, nothing found, some walker alive: next round
M2NextRound ==
    /\ algorithm = "MT_M2" /\ pc = "m2_yielded"
    /\ ~m2.found /\ m2.active_threads # 0
    /\ m2' = RoundBegin([m2 EXCEPT !.active_threads = 0,
                                   !.turn = NextTurn(m2.threads, -1)],
                         poMazeData)
    /\ pc' = "m2_round"
    /\ tick' = 1 - tick
    /\ UNCHANGED <<mazeVars, userVars, poMazeData, visitOrder, thread_ownership,
                   algorithm, hist, bfs, dfs, m1>>

\* resumed after SEARCHING: the loop is left and `found && collision_pos` fails
M2NoSolution ==
    /\ algorithm = "MT_M2" /\ pc = "m2_yielded"
    /\ \/ ~m2.found /\ m2.active_threads = 0
       \/ m2.found /\ m2.collision_pos = Null
    /\ hist' = Yield(hist, NO_SOLUTION)
    /\ pc' = "done"
    /\ tick' = 1 - tick
    /\ UNCHANGED <<mazeVars, userVars, poMazeData, visitOrder, thread_ownership,
                   algorithm, bfs, dfs, m2, m1>>

\* the first element of seq satisfying the test, as a one-element sequence
RECURSIVE FirstTeamCell(_, _, _)
FirstTeamCell(md, seq, is_tb) ==
    IF seq = <<>> THEN <<>>
    ELSE IF isVisitedByTeam(md, Head(seq), is_tb) THEN <<Head(seq)>>
    ELSE FirstTeamCell(md, Tail(seq), is_tb)

Neighbours(pos) ==
    <<Move(pos, North), Move(pos, East), Move(pos, South), Move(pos, West)>>

\* PART 1, the while-loop that fills path_tb from temp; <<>> when the parent
\* pointers lead back to a cell already in path_tb, so that the loop never ends
RECURSIVE Half1Path(_, _, _)
Half1Path(md, temp, path_tb) ==
    IF temp = getStart THEN Append(path_tb, getStart)
    ELSE LET parent_dir == getDirectionRouteBT(md, temp) IN
         IF parent_dir = Uninitialized
         THEN Append(Append(path_tb, temp), getStart)
         ELSE IF Len(path_tb) > Size THEN <<>>
         ELSE Half1Path(md, Move(temp, parent_dir), Append(path_tb, temp))

\* PART 1: the cell the parent-pointer walk starts from
Half1Origin(md, collision_pos) ==
    IF ~isVisitedByTeam(md, collision_pos, TRUE)
    THEN LET n == FirstTeamCell(md, Neighbours(collision_pos), TRUE)
         IN IF n = <<>> THEN collision_pos ELSE n[1]
    ELSE collision_pos

\* resumed after SEARCHING with a collision: PART 1 up to its first yield
M2Reconstruct ==
    /\ algorithm = "MT_M2" /\ pc = "m2_yielded"
    /\ m2.found /\ m2.collision_pos # Null
    /\ LET path_tb == Half1Path(poMazeData,
                                Half1Origin(poMazeData, m2.collision_pos), <<>>)
       IN IF path_tb = <<>>
          THEN /\ pc' = "hang"
               /\ UNCHANGED <<poMazeData, hist, m2>>
          ELSE /\ m2' = [m2 EXCEPT !.path_tb = path_tb, !.i = Len(path_tb)]
               /\ poMazeData' = markPath(poMazeData, path_tb[Len(path_tb)])
               /\ hist' = Yield(hist, BACKTRACKING)
               /\ pc' = "m2_half1"
    /\ tick' = 1 - tick
    /\ UNCHANGED <<mazeVars, userVars, visitOrder, thread_ownership, algorithm,
                   bfs, dfs, m1>>

\* PART 2, step 1: the id of the BT thread owning the first VISITED_BT cell
\* of check_list whose owner is >= 3; -1 for none
RECURSIVE FindBTThread(_, _, _)
FindBTThread(md, own, check_list) ==
    IF check_list = <<>> THEN -1
    ELSE IF isVisitedByTeam(md, Head(check_list), FALSE)
            /\ getThreadOwner(own, Head(check_list)) >= 3
         THEN getThreadOwner(own, Head(check_list))
         ELSE FindBTThread(md, own, Tail(check_list))

\* PART 2, step 2: the stack index the walk starts at
SyncStackIdx(stack, collision_pos) ==
    IF Top(stack).at = collision_pos THEN Len(stack)
    ELSE LET hits == {i \in 1 .. Len(stack) : stack[i].at = collision_pos}
         IN IF hits = {} THEN Len(stack)
            ELSE CHOOSE i \in hits : \A j \in hits : j <= i

\* what the generator does from a point of PART 2 up to its next yield:
\* [md, stack_idx, curr, jump_dir, tok, pc]
Part2Result(md, stack_idx, curr, jump_dir, tok, pcv) ==
    [md |-> md, stack_idx |-> stack_idx, curr |-> curr,
     jump_dir |-> jump_dir, tok |-> tok, pc |-> pcv]

\* OuterHead without the final markPath(end)
M_OuterHead_NoEndMark(md, stack_idx, curr, jump_dir) ==
    IF stack_idx > 1
    THEN Part2Result(markPath(md, curr), stack_idx, curr, jump_dir,
                     BACKTRACKING, "m2_jump")
    ELSE Part2Result(md, stack_idx, curr, jump_dir, FINISHED, "done")

\* head of `while (stack_idx > 0)`
OuterHead(md, stack_idx, curr, jump_dir) ==
    IF stack_idx > 1
    THEN Part2Result(markPath(md, curr), stack_idx, curr, jump_dir,
                     BACKTRACKING, "m2_jump")
    ELSE Part2Result(markPath(md, getEnd), stack_idx, curr, jump_dir,
                     FINISHED, "done")

\* head of `while (!curr.eq(node_goal.at))`
InnerHead(md, stack, stack_idx, curr, jump_dir) ==
    IF curr # stack[stack_idx - 1].at
    THEN Part2Result(markPath(md, curr), stack_idx, curr, jump_dir,
                     BACKTRACKING, "m2_walk")
    ELSE OuterHead(md, stack_idx - 1, curr, jump_dir)

\* resumed after BACKTRACKING in PART 1
M2Half1 ==
    /\ algorithm = "MT_M2" /\ pc = "m2_half1"
    /\ IF m2.i > 1
       THEN /\ m2' = [m2 EXCEPT !.i = @ - 1]
            /\ poMazeData' = markPath(poMazeData, m2.path_tb[m2.i - 1])
            /\ hist' = Yield(hist, BACKTRACKING)
            /\ pc' = "m2_half1"
       ELSE LET bt == FindBTThread(poMazeData, thread_ownership,
                                   <<m2.collision_pos>>
                                       \o Neighbours(m2.collision_pos))
            IN IF bt # -1 /\ Len(m2.threads[bt].stack) > 0
               THEN LET stack == m2.threads[bt].stack
                        k == SyncStackIdx(stack, m2.collision_pos)
                        r == OuterHead(poMazeData, k, stack[k].at,
                                       Uninitialized)
                    IN /\ m2' = [m2 EXCEPT !.i = 0, !.bt = bt,
                                           !.stack_idx = r.stack_idx,
                                           !.curr = r.curr]
                       /\ poMazeData' = r.md
                       /\ hist' = Yield(hist, r.tok)
                       /\ pc' = r.pc
               ELSE /\ m2' = [m2 EXCEPT !.i = 0]
                    /\ hist' = Yield(hist, FINISHED)
                    /\ pc' = "done"
                    /\ UNCHANGED poMazeData
    /\ tick' = 1 - tick
    /\ UNCHANGED <<mazeVars, userVars, visitOrder, thread_ownership, algorithm,
                   bfs, dfs, m1>>

\* resumed after the BACKTRACKING that marks a stack node: the jump
M2Jump ==
    /\ algorithm = "MT_M2" /\ pc = "m2_jump"
    /\ LET stack == m2.threads[m2.bt].stack
           jump_dir == stack[m2.stack_idx].came_from
           r == InnerHead(poMazeData, stack, m2.stack_idx,
                          Move(m2.curr, jump_dir), jump_dir)
       IN /\ m2' = [m2 EXCEPT !.stack_idx = r.stack_idx, !.curr = r.curr,
                              !.jump_dir = r.jump_dir]
          /\ poMazeData' = r.md
          /\ hist' = Yield(hist, r.tok)
          /\ pc' = r.pc
    /\ tick' = 1 - tick
    /\ UNCHANGED <<mazeVars, userVars, visitOrder, thread_ownership, algorithm,
                   bfs, dfs, m1>>

\* the first direction of dirs accepted by the corridor walk, else Uninitialized
RECURSIVE WalkDir(_, _, _, _, _, _)
WalkDir(md, own, curr, back_dir, strict_id, dirs) ==
    IF dirs = <<>> THEN Uninitialized
    ELSE LET d == Head(dirs)
             n == Move(curr, d)
         IN IF /\ d # back_dir
               /\ canMove(md, curr, d)
               /\ isVisitedByTeam(md, n, FALSE)
               /\ (strict_id = -1 \/ getThreadOwner(own, n) = strict_id)
            THEN d
            ELSE WalkDir(md, own, curr, back_dir, strict_id, Tail(dirs))

\* one pass of the corridor-walk body after its yield: the next direction,
\* Uninitialized when the walk is lost
WalkStep(md, own, curr, jump_dir, goal, bt_id) ==
    LET toGoal == {i \in 1 .. 4 : Move(curr, SlotDirs[i]) = goal}
        strict == WalkDir(md, own, curr, reverseDir(jump_dir), bt_id, SlotDirs)
    IN IF toGoal # {}
       THEN SlotDirs[CHOOSE i \in toGoal : \A j \in toGoal : i <= j]
       ELSE IF strict # Uninitialized THEN strict
       ELSE WalkDir(md, own, curr, reverseDir(jump_dir), -1, SlotDirs)

\* resumed after the BACKTRACKING that marks a corridor cell
M2Walk ==
    /\ algorithm = "MT_M2" /\ pc = "m2_walk"
    /\ LET stack == m2.threads[m2.bt].stack
           d == WalkStep(poMazeData, thread_ownership, m2.curr, m2.jump_dir,
                         stack[m2.stack_idx - 1].at, m2.bt)
           r == IF d # Uninitialized
                THEN InnerHead(poMazeData, stack, m2.stack_idx,
                               Move(m2.curr, d), d)
                ELSE OuterHead(poMazeData, m2.stack_idx - 1, m2.curr,
                               m2.jump_dir)
       IN /\ m2' = [m2 EXCEPT !.stack_idx = r.stack_idx, !.curr = r.curr,
                              !.jump_dir = r.jump_dir,
                              !.lost = @ \/ d = Uninitialized,
                              !.lost_path =
                                  IF d = Uninitialized /\ ~m2.lost
                                  THEN {i \in DOMAIN poMazeData :
                                          PATH_BIT \in poMazeData[i]}
                                  ELSE @]
          /\ poMazeData' = r.md
          /\ hist' = Yield(hist, r.tok)
          /\ pc' = r.pc
    /\ tick' = 1 - tick
    /\ UNCHANGED <<mazeVars, userVars, visitOrder, thread_ownership, algorithm,
                   bfs, dfs, m1>>

-----------------------------------------------------------------------------
(* 6. MT_M1 solver *)

NumPruners == 4

\* new PruneThread(tid, maze, row_start, row_end, in_q, out_qs); in_q is
\* queues[tid], out_qs are queues[tid - 1] and queues[tid + 1] where they exist
NewPruneThread(tid, row_start, row_end) ==
    [id |-> tid, row_start |-> row_start, row_end |-> row_end,
     stack |-> <<>>, phase |-> "SCAN", iter_row |-> row_start, iter_col |-> 0,
     finished |-> FALSE]

Min(a, b) == IF a < b THEN a ELSE b

\* the row band of pruner i (MT_M1_Solver constructor)
RowStart(i) ==
    i * (height \div NumPruners) + Min(i, height % NumPruners)
\* RowEnd that gives band i the remainder rows counted for band i - 1
M_RowEnd_RemainderOfStart(i) ==
    (i + 1) * (height \div NumPruners) + Min(i, height % NumPruners)

RowEnd(i) ==
    (i + 1) * (height \div NumPruners) + Min(i + 1, height % NumPruners)

\* SCAN phase: the for-loop from iteration k on; result [p, md, own, queues]
RECURSIVE ScanLoop(_, _, _)
ScanLoop(p, md, k) ==
    IF k >= width THEN p
    ELSE LET p1 == IF p.iter_col >= width
                   THEN [p EXCEPT !.iter_col = 0, !.iter_row = @ + 1]
                   ELSE p
             pos == <<p1.iter_row, p1.iter_col>>
         IN IF p1.iter_row >= p1.row_end
            THEN [p1 EXCEPT !.phase = "PRUNE"]
            ELSE IF pos = getStart \/ pos = getEnd
            THEN ScanLoop([p1 EXCEPT !.iter_col = @ + 1], md, k + 1)
            ELSE IF Len(getAvailableMovesNoPruned(md, pos)) <= 1
            THEN ScanLoop([p1 EXCEPT !.stack = Append(@, pos),
                                     !.iter_col = @ + 1], md, k + 1)
            ELSE ScanLoop([p1 EXCEPT !.iter_col = @ + 1], md, k + 1)

PruneResult(p, md, own, queues) ==
    [p |-> p, md |-> md, own |-> own, queues |-> queues]

\* PrunePhase dropping a neighbour that lies in another pruner's band
M_PrunePhase_DropsForeign(p, md, own, queues) ==
    LET stack0 == p.stack \o queues[p.id]
        queues0 == [queues EXCEPT ![p.id] = <<>>]
    IN IF Len(stack0) = 0 THEN PruneResult(p, md, own, queues0)
       ELSE LET pos == Top(stack0)
                stack1 == Pop(stack0)
            IN IF isPruned(md, pos)
               THEN PruneResult([p EXCEPT !.stack = stack1], md, own, queues0)
               ELSE LET md1 == markPruned(md, pos)
                        own1 == setThreadOwner(own, pos, p.id)
                        moves == getAvailableMovesNoPruned(md1, pos)
                        neighbor == Move(pos, moves[1])
                    IN IF Len(moves) # 1
                          \/ neighbor = getStart \/ neighbor = getEnd
                          \/ Len(getAvailableMovesNoPruned(md1, neighbor)) > 1
                          \/ neighbor[1] < p.row_start
                          \/ neighbor[1] >= p.row_end
                       THEN PruneResult([p EXCEPT !.stack = stack1],
                                        md1, own1, queues0)
                       ELSE PruneResult(
                               [p EXCEPT !.stack = Append(stack1, neighbor)],
                               md1, own1, queues0)

\* PRUNE phase; result [p, md, own, queues]
PrunePhase(p, md, own, queues) ==
    LET stack0 == p.stack \o queues[p.id]
        queues0 == [queues EXCEPT ![p.id] = <<>>]
    IN IF Len(stack0) = 0 THEN PruneResult(p, md, own, queues0)
       ELSE LET pos == Top(stack0)
                stack1 == Pop(stack0)
            IN IF isPruned(md, pos)
               THEN PruneResult([p EXCEPT !.stack = stack1], md, own, queues0)
               ELSE LET md1 == markPruned(md, pos)
                        own1 == setThreadOwner(own, pos, p.id)
                        moves == getAvailableMovesNoPruned(md1, pos)
                        neighbor == Move(pos, moves[1])
                    IN IF Len(moves) # 1
                          \/ neighbor = getStart \/ neighbor = getEnd
                          \/ Len(getAvailableMovesNoPruned(md1, neighbor)) > 1
                       THEN PruneResult([p EXCEPT !.stack = stack1],
                                        md1, own1, queues0)
                       ELSE IF neighbor[1] < p.row_start
                       THEN PruneResult(
                               [p EXCEPT !.stack = stack1], md1, own1,
                               IF p.id > 0
                               THEN [queues0 EXCEPT
                                       ![p.id - 1] = Append(@, neighbor)]
                               ELSE queues0)
                       ELSE IF neighbor[1] >= p.row_end
                       THEN PruneResult(
                               [p EXCEPT !.stack = stack1], md1, own1,
                               IF p.id < NumPruners - 1
                               THEN [queues0 EXCEPT
                                       ![p.id + 1] = Append(@, neighbor)]
                               ELSE queues0)
                       ELSE PruneResult(
                               [p EXCEPT !.stack = Append(stack1, neighbor)],
                               md1, own1, queues0)

\* PruneThread.step(); result [p, md, own, queues]
PruneThreadStep(p, md, own, queues) ==
    IF p.finished THEN PruneResult(p, md, own, queues)
    ELSE IF p.phase = "SCAN"
    THEN PruneResult(ScanLoop(p, md, 0), md, own, queues)
    ELSE PrunePhase(p, md, own, queues)

\* new WalkThreadTB(maze, solve_list)
NewWalkThreadTB ==
    [curr |-> getStart, came_from |-> Uninitialized, finished |-> FALSE,
     found |-> FALSE, overlap |-> Null]

\* moves with the first occurrence of d spliced out
RECURSIVE Splice(_, _)
Splice(moves, d) ==
    IF moves = <<>> THEN <<>>
    ELSE IF Head(moves) = d THEN Tail(moves)
    ELSE <<Head(moves)>> \o Splice(Tail(moves), d)

\* the walker stepping into its first remaining move whenever there is one
M_WalkThreadTBStep_TakesFirst(w, md, solve_list, first_exit) ==
    LET same == [w |-> w, md |-> md, solve_list |-> solve_list,
                 first_exit |-> first_exit]
        all == getAvailableMovesNoPruned(md, w.curr)
        moves == IF w.came_from # Uninitialized
                 THEN Splice(all, w.came_from) ELSE all
    IN IF w.finished THEN same
       ELSE IF getDirectionRouteBT(md, w.curr) # Uninitialized
       THEN [same EXCEPT !.w = [w EXCEPT !.overlap = w.curr,
                                         !.finished = TRUE]]
       ELSE IF w.curr = getEnd
       THEN [same EXCEPT !.w = [w EXCEPT !.found = TRUE, !.finished = TRUE],
                         !.first_exit = TRUE]
       ELSE IF Len(moves) >= 1
       THEN LET go_to == moves[1]
                nxt == Move(w.curr, go_to)
            IN [w |-> [w EXCEPT !.curr = nxt, !.overlap = nxt,
                                !.came_from = reverseDir(go_to)],
                md |-> markVisitedTeam(md, nxt, TRUE),
                solve_list |-> Append(solve_list, go_to),
                first_exit |-> first_exit]
       ELSE [same EXCEPT !.w = [w EXCEPT !.finished = TRUE]]

\* WalkThreadTB.step(first_exit_ref); result [w, md, solve_list, first_exit]
WalkThreadTBStep(w, md, solve_list, first_exit) ==
    LET same == [w |-> w, md |-> md, solve_list |-> solve_list,
                 first_exit |-> first_exit]
        all == getAvailableMovesNoPruned(md, w.curr)
        moves == IF w.came_from # Uninitialized
                 THEN Splice(all, w.came_from) ELSE all
    IN IF w.finished THEN same
       ELSE IF getDirectionRouteBT(md, w.curr) # Uninitialized
       THEN [same EXCEPT !.w = [w EXCEPT !.overlap = w.curr,
                                         !.finished = TRUE]]
       ELSE IF w.curr = getEnd
       THEN [same EXCEPT !.w = [w EXCEPT !.found = TRUE, !.finished = TRUE],
                         !.first_exit = TRUE]
       ELSE IF Len(moves) = 1
       THEN LET go_to == moves[1]
                nxt == Move(w.curr, go_to)
            IN [w |-> [w EXCEPT !.curr = nxt, !.overlap = nxt,
                                !.came_from = reverseDir(go_to)],
                md |-> markVisitedTeam(md, nxt, TRUE),
                solve_list |-> Append(solve_list, go_to),
                first_exit |-> first_exit]
       ELSE IF Len(moves) > 1 THEN same
       ELSE [same EXCEPT !.w = [w EXCEPT !.finished = TRUE]]

\* new BFSThreadBT(maze), apart from its write to the End cell
\* log: every cell given to the deque so far, in order (constructor included)
NewBFSThreadBT ==
    [q |-> <<getEnd>>, finished |-> FALSE, found |-> FALSE,
     log |-> <<getEnd>>]

\* the for-loop over dirs of one pop of the backward BFS; st = [md, q]
RECURSIVE BFSBTExpand(_, _, _)
BFSBTExpand(st, cur, dirs) ==
    IF dirs = <<>> THEN st
    ELSE LET d == Head(dirs)
             nextPos == Move(cur, d)
         IN IF /\ canMove(st.md, cur, d)
               /\ ~isPruned(st.md, nextPos)
               /\ getDirectionRouteBT(st.md, nextPos) = Uninitialized
            THEN BFSBTExpand(
                    [md |-> markVisitedTeam(
                                setDirectionRouteBT(st.md, nextPos,
                                                    reverseDir(d)),
                                nextPos, FALSE),
                     q |-> Append(st.q, nextPos)],
                    cur, Tail(dirs))
            ELSE BFSBTExpand(st, cur, Tail(dirs))

\* the while-loop of BFSThreadBT.step from pass `steps` on
RECURSIVE BFSBTLoop(_, _, _, _)
BFSBTLoop(b, md, first_exit, steps) ==
    IF ~(Len(b.q) > 0 /\ steps < 2)
    THEN [b |-> b, md |-> md, first_exit |-> first_exit]
    ELSE LET cur == Head(b.q)
             b1 == [b EXCEPT !.q = Tail(b.q)]
         IN IF isPruned(md, cur)
            THEN BFSBTLoop(b1, md, first_exit, steps + 1)
            ELSE IF cur = getStart
            THEN [b |-> [b1 EXCEPT !.found = TRUE, !.finished = TRUE],
                  md |-> md, first_exit |-> TRUE]
            ELSE LET st == BFSBTExpand([md |-> md, q |-> b1.q], cur, BFSDirs)
                 IN BFSBTLoop([b1 EXCEPT !.q = st.q,
                                         !.log = @ \o SubSeq(st.q,
                                                             Len(b1.q) + 1,
                                                             Len(st.q))],
                              st.md, first_exit, steps + 1)

\* BFSThreadBT.step(first_exit_ref); result [b, md, first_exit]
BFSThreadBTStep(b, md, first_exit) ==
    IF b.finished \/ first_exit
    THEN [b |-> [b EXCEPT !.finished = TRUE], md |-> md,
          first_exit |-> first_exit]
    ELSE BFSBTLoop(b, md, first_exit, 0)

NoM1 == [pruners |-> <<>>, queues |-> <<>>, walker |-> NewWalkThreadTB,
         bfs |-> [q |-> <<>>, finished |-> FALSE, found |-> FALSE,
                  log |-> <<>>],
         solve_list |-> <<>>, first_exit |-> FALSE, turn |-> 0,
         curr |-> Null, i |-> 0]

\* new MT_M1_Solver(maze), apart from the write of BFSThreadBT to the End cell
NewM1 ==
    [pruners |-> [i \in 0 .. NumPruners - 1 |->
                     NewPruneThread(i, RowStart(i), RowEnd(i))],
     queues |-> [i \in 0 .. NumPruners - 1 |-> <<>>],
     walker |-> NewWalkThreadTB,
     bfs |-> NewBFSThreadBT,
     solve_list |-> <<>>, first_exit |-> FALSE, turn |-> 0,
     curr |-> Null, i |-> 0]

\* what the generator does from a point of the reconstruction up to its next
\* yield: [md, curr, i, tok, pc]
RecResult(md, curr, i, tok, pcv) ==
    [md |-> md, curr |-> curr, i |-> i, tok |-> tok, pc |-> pcv]

\* RecBT yielding SEARCHING where the code yields BACKTRACKING
M_RecBT_YieldsSearching(md, curr, i) ==
    LET d == getDirectionRouteBT(md, curr) IN
    IF curr = getEnd \/ d = Uninitialized
    THEN RecResult(markPath(IF curr = getEnd THEN md ELSE markPath(md, curr),
                            getEnd),
                   curr, i, FINISHED, "done")
    ELSE RecResult(markPath(md, curr), Move(curr, d), i,
                   SEARCHING, "m1_rec_bt")

\* head of `while (!curr.eq(this.maze.getEnd()))`
RecBT(md, curr, i) ==
    LET d == getDirectionRouteBT(md, curr) IN
    IF curr = getEnd \/ d = Uninitialized
    THEN RecResult(markPath(IF curr = getEnd THEN md ELSE markPath(md, curr),
                            getEnd),
                   curr, i, FINISHED, "done")
    ELSE RecResult(markPath(md, curr), Move(curr, d), i,
                   BACKTRACKING, "m1_rec_bt")

\* head of `for (let d of this.solve_list)`, i directions consumed
RecTB(md, solve_list, curr, i) ==
    IF i < Len(solve_list)
    THEN RecResult(markPath(md, curr), Move(curr, solve_list[i + 1]), i + 1,
                   BACKTRACKING, "m1_rec_tb")
    ELSE RecBT(md, curr, i)

\* loop head: reached at the first resumption and after every SEARCHING
M1LoopHead ==
    /\ algorithm = "MT_M1" /\ pc \in {"start", "m1_yielded"}
    /\ IF ~m1.first_exit /\ (~m1.walker.finished \/ ~m1.bfs.finished)
       THEN /\ m1' = [m1 EXCEPT !.turn = 0]
            /\ pc' = "m1_prune"
            /\ UNCHANGED <<poMazeData, hist>>
       ELSE LET r == RecTB(poMazeData, m1.solve_list, getStart, 0)
            IN /\ m1' = [m1 EXCEPT !.curr = r.curr, !.i = r.i]
               /\ poMazeData' = r.md
               /\ hist' = Yield(hist, r.tok)
               /\ pc' = r.pc
    /\ tick' = 1 - tick
    /\ UNCHANGED <<mazeVars, userVars, visitOrder, thread_ownership, algorithm,
                   bfs, dfs, m2>>

\* 1. Step Pruners: pruner m1.turn
M1Prune ==
    /\ algorithm = "MT_M1" /\ pc = "m1_prune"
    /\ LET r == PruneThreadStep(m1.pruners[m1.turn], poMazeData,
                                thread_ownership, m1.queues)
       IN /\ m1' = [m1 EXCEPT !.pruners[m1.turn] = r.p,
                              !.queues = r.queues,
                              !.turn = IF m1.turn < NumPruners - 1
                                       THEN @ + 1 ELSE @]
          /\ poMazeData' = r.md
          /\ thread_ownership' = r.own
    /\ pc' = IF m1.turn < NumPruners - 1 THEN "m1_prune" ELSE "m1_walk"
    /\ tick' = 1 - tick
    /\ UNCHANGED <<mazeVars, userVars, visitOrder, algorithm, hist, bfs, dfs, m2>>

\* 2. Step Walker
M1Walk ==
    /\ algorithm = "MT_M1" /\ pc = "m1_walk"
    /\ LET r == WalkThreadTBStep(m1.walker, poMazeData, m1.solve_list,
                                 m1.first_exit)
       IN /\ m1' = [m1 EXCEPT !.walker = r.w, !.solve_list = r.solve_list,
                              !.first_exit = r.first_exit]
          /\ poMazeData' = r.md
    /\ pc' = "m1_bfs"
    /\ tick' = 1 - tick
    /\ UNCHANGED <<mazeVars, userVars, visitOrder, thread_ownership, algorithm, hist,
                   bfs, dfs, m2>>

\* 3. Step BFS, then the break test and the yield that end the round
M1Bfs ==
    /\ algorithm = "MT_M1" /\ pc = "m1_bfs"
    /\ LET r == BFSThreadBTStep(m1.bfs, poMazeData, m1.first_exit)
       IN IF m1.walker.finished /\ m1.walker.overlap # Null
          THEN LET rec == RecTB(r.md, m1.solve_list, getStart, 0)
               IN /\ m1' = [m1 EXCEPT !.bfs = r.b,
                                      !.first_exit = r.first_exit,
                                      !.curr = rec.curr, !.i = rec.i]
                  /\ poMazeData' = rec.md
                  /\ hist' = Yield(hist, rec.tok)
                  /\ pc' = rec.pc
          ELSE /\ m1' = [m1 EXCEPT !.bfs = r.b, !.first_exit = r.first_exit]
               /\ poMazeData' = r.md
               /\ hist' = Yield(hist, SEARCHING)
               /\ pc' = "m1_yielded"
    /\ tick' = 1 - tick
    /\ UNCHANGED <<mazeVars, userVars, visitOrder, thread_ownership, algorithm,
                   bfs, dfs, m2>>

\* resumed after BACKTRACKING while replaying solve_list
M1RecTB ==
    /\ algorithm = "MT_M1" /\ pc = "m1_rec_tb"
    /\ LET r == RecTB(poMazeData, m1.solve_list, m1.curr, m1.i)
       IN /\ m1' = [m1 EXCEPT !.curr = r.curr, !.i = r.i]
          /\ poMazeData' = r.md
          /\ hist' = Yield(hist, r.tok)
          /\ pc' = r.pc
    /\ tick' = 1 - tick
    /\ UNCHANGED <<mazeVars, userVars, visitOrder, thread_ownership, algorithm,
                   bfs, dfs, m2>>

\* resumed after BACKTRACKING while following the BT hints
M1RecBT ==
    /\ algorithm = "MT_M1" /\ pc = "m1_rec_bt"
    /\ LET r == RecBT(poMazeData, m1.curr, m1.i)
       IN /\ m1' = [m1 EXCEPT !.curr = r.curr, !.i = r.i]
          /\ poMazeData' = r.md
          /\ hist' = Yield(hist, r.tok)
          /\ pc' = r.pc
    /\ tick' = 1 - tick
    /\ UNCHANGED <<mazeVars, userVars, visitOrder, thread_ownership, algorithm,
                   bfs, dfs, m2>>

-----------------------------------------------------------------------------
(* Initial states: a loaded maze (Maze.Load followed by initSolver), with  *)
(* the solver constructed and its generator created but not yet resumed.   *)

Algorithms == {"BFS", "DFS", "MT_M2", "MT_M1"}

Dims == {d \in (1 .. MaxCells) \X (1 .. MaxCells) : d[1] * d[2] <= MaxCells}

\* cells whose east / south edge is inside a w x h grid
EastEdges(w, h) == {i \in 0 .. w * h - 1 : i % w < w - 1}
SouthEdges(w, h) == {i \in 0 .. w * h - 1 : i \div w < h - 1}

\* Maze.Load: the wall bits of every cell; the outer east and south borders
\* are walled, the inner walls are those of ew and sw
LoadedCells(w, h, ew, sw) ==
    [i \in 0 .. w * h - 1 |->
        (IF i \in ew \/ i % w = w - 1 THEN {EAST_BIT} ELSE {})
        \cup (IF i \in sw \/ i \div w = h - 1 THEN {SOUTH_BIT} ELSE {})]

\* new BFSSolver / DFSSolver / MTSolver / MT_M1_Solver (maze): what the
\* constructor writes to the cell store md (the backward BFS of MT-M1 marks End)
Constructed(a, md) ==
    IF a = "MT_M1" THEN setDirectionRouteBT(md, getEnd, Uninitialized) ELSE md

\* no solve on the freshly loaded maze has been recorded
NoFresh == [algorithm |-> "", seq |-> <<>>, onpath |-> {}]

\* no call of canMove from outside has been made
NoProbe == [pos |-> Null, dir |-> Uninitialized, asked |-> FALSE,
            fwd |-> FALSE, back |-> FALSE]

\* loadMaze has not been called
NoLoadCall == [asked |-> FALSE, blob |-> [ints |-> <<>>, tail |-> 0],
               outcome |-> ""]

\* getNextThreads has not been called from outside a walker
NoNextCall == [asked |-> FALSE, at |-> Null,
               b |-> [directions |-> <<>>, count |-> 0, index |-> 0],
               before |-> <<>>, after_b |-> <<>>, d |-> Uninitialized]

\* the page after loadMaze on the w x h maze with inner walls ew and sw and
\* with algorithm a selected
InitMaze(w, h, ew, sw, a) ==
    /\ width = w
    /\ height = h
    /\ algorithm = a
    /\ loaded = LoadedCells(w, h, ew, sw)
    /\ poMazeData = Constructed(a, Reset(LoadedCells(w, h, ew, sw)))
    /\ visitOrder = [i \in 0 .. w * h - 1 |-> -1]
    /\ thread_ownership = [i \in 0 .. w * h - 1 |-> -1]
    /\ pc = "start"
    /\ hist = NoHist
    /\ bfs = NoBFS
    /\ dfs = NoDFS
    /\ m2 = NoM2
    /\ m1 = IF a = "MT_M1" THEN NewM1 ELSE NoM1
    /\ tick = 0
    /\ resets = 0
    /\ fresh = NoFresh
    /\ probe = NoProbe
    /\ loadCall = NoLoadCall
    /\ nextCall = NoNextCall

InitFor(algos) ==
    \E d \in Dims :
      \E ew \in SUBSET EastEdges(d[1], d[2]), sw \in SUBSET SouthEdges(d[1], d[2]) :
        \E a \in algos : InitMaze(d[1], d[2], ew, sw, a)

Init == InitFor(Algorithms)

NextBFS == BFSStart \/ BFSSearch \/ BFSBacktrack
NextDFS == DFSStart \/ DFSSearch \/ DFSBacktrack
NextM2 ==
    \/ M2Start \/ M2Step \/ M2NextRound \/ M2NoSolution \/ M2Reconstruct
    \/ M2Half1 \/ M2Jump \/ M2Walk
NextM1 == M1LoopHead \/ M1Prune \/ M1Walk \/ M1Bfs \/ M1RecTB \/ M1RecBT

Next == NextBFS \/ NextDFS \/ NextM2 \/ NextM1

Spec == Init /\ [][Next]_vars

\* initSolver, called by setAlgo(a) or restart() while a run is under way or
\* over: Maze.Reset, a new solver, a new generator.  If the run given up is
\* the completed BFS or DFS solve of the freshly loaded maze, its token
\* sequence and its ON_PATH cells are kept in `fresh`.
initSolver ==
    /\ resets < MaxResets
    /\ \E a \in Algorithms :
          /\ algorithm' = a
          /\ poMazeData' = Constructed(a, Reset(poMazeData))
          /\ m1' = IF a = "MT_M1" THEN NewM1 ELSE NoM1
    /\ visitOrder' = ResetVisitOrder(visitOrder)
    /\ thread_ownership' = ResetOwnership(thread_ownership)
    /\ pc' = "start"
    /\ hist' = NoHist
    /\ bfs' = NoBFS
    /\ dfs' = NoDFS
    /\ m2' = NoM2
    /\ tick' = 0
    /\ resets' = resets + 1
    /\ fresh' = IF resets = 0 /\ algorithm \in {"BFS", "DFS"} /\ pc = "done"
                THEN [algorithm |-> algorithm, seq |-> hist.seq,
                      onpath |-> {i \in DOMAIN poMazeData :
                                     PATH_BIT \in poMazeData[i]}]
                ELSE fresh
    /\ UNCHANGED <<mazeVars, loaded, probe, loadCall, nextCall>>

\* solving with the user free to restart or to switch the algorithm
SpecReset == Init /\ [][Next \/ initSolver]_vars

\* the positions of the grid and of the ring of positions around it
ProbePositions == (-1 .. height) \X (-1 .. width)

\* a call maze.canMove(p, d) on the loaded maze, together with the call for
\* the same edge made from the other side
CanMoveCall ==
    /\ pc = "start" /\ ~probe.asked
    /\ \E p \in ProbePositions, d \in Cardinal :
          probe' = [pos |-> p, dir |-> d, asked |-> TRUE,
                    fwd |-> canMove(poMazeData, p, d),
                    back |-> canMove(poMazeData, Move(p, d), reverseDir(d))]
    /\ UNCHANGED <<mazeVars, poMazeData, visitOrder, thread_ownership,
                   algorithm, pc, hist, bfs, dfs, m2, m1, tick,
                   loaded, resets, fresh, loadCall, nextCall>>

SpecCanMove == InitFor({"BFS"}) /\ [][CanMoveCall]_vars

\* the DEAD and OCCUPIED bits of a cell word
BranchBits ==
    UNION {DeadBit(d) : d \in Cardinal} \cup UNION {OccupiedBit(d) : d \in Cardinal}

\* the Branches objects of the junction at `at`: the one the constructor
\* builds, with any of its slots emptied since and the cursor anywhere
RECURSIVE RemoveAll(_, _)
RemoveAll(b, ds) ==
    IF ds = {} THEN b
    ELSE LET d == CHOOSE x \in ds : TRUE
         IN RemoveAll(BranchesRemove(b, d), ds \ {d})

BranchesAt(md, at) ==
    {[RemoveAll(NewBranches(md, at, 0), ds) EXCEPT !.index = k] :
        ds \in SUBSET Cardinal, k \in 0 .. 3}

\* a call junc.branches.getNextThreads(junc.at, maze) on a junction of the
\* maze whose word carries any DEAD and OCCUPIED bits
getNextThreadsCall ==
    /\ pc = "start" /\ ~nextCall.asked
    /\ \E at \in Grid, bits \in SUBSET BranchBits :
          LET md == setFlag(poMazeData, at, bits) IN
          \E b \in BranchesAt(md, at) :
              LET r == getNextThreads(b, at, md) IN
              /\ poMazeData' = r.md
              /\ nextCall' = [asked |-> TRUE, at |-> at, b |-> b,
                              before |-> md, after_b |-> r.b, d |-> r.d]
    /\ UNCHANGED <<mazeVars, visitOrder, thread_ownership,
                   algorithm, pc, hist, bfs, dfs, m2, m1, tick,
                   loaded, resets, fresh, probe, loadCall>>

SpecNextMt ==
    InitMaze(ProbeSide, ProbeSide, {}, {}, "MT_M2")
        /\ [][getNextThreadsCall]_vars

\* the blobs tried: every sequence of at most MaxBlobInts integers, with up
\* to three stray bytes after them
BlobInt == -1 .. 2
RECURSIVE IntSeqs(_)
IntSeqs(n) ==
    IF n = 0 THEN {<<>>}
    ELSE LET shorter == IntSeqs(n - 1)
         IN shorter \cup {Append(s, x) : s \in {t \in shorter : Len(t) = n - 1},
                                           x \in BlobInt}
Blobs == [ints : IntSeqs(MaxBlobInts), tail : 0 .. 3]

\* the page as the script leaves it before its first loadMaze call: an empty
\* Maze, the BFS algorithm selected, no generator
InitPage ==
    /\ width = 0
    /\ height = 0
    /\ algorithm = "BFS"
    /\ loaded = [i \in 0 .. -1 |-> {}]
    /\ poMazeData = [i \in 0 .. -1 |-> {}]
    /\ visitOrder = [i \in 0 .. -1 |-> -1]
    /\ thread_ownership = [i \in 0 .. -1 |-> -1]
    /\ pc = "nogen"
    /\ hist = NoHist
    /\ bfs = NoBFS
    /\ dfs = NoDFS
    /\ m2 = NoM2
    /\ m1 = NoM1
    /\ tick = 0
    /\ resets = 0
    /\ fresh = NoFresh
    /\ probe = NoProbe
    /\ loadCall = NoLoadCall
    /\ nextCall = NoNextCall

\* loadMaze(key) with the BFS algorithm selected: Maze.Load on the blob
\* fetched and, unless Load throws, initSolver (Reset, new BFSSolver, a new
\* generator); a throw is caught and reported, with the fields that Load had
\* already assigned left as they are
loadMaze ==
    /\ ~loadCall.asked /\ algorithm = "BFS"
    /\ \E blob \in Blobs :
          LET r == Load(blob, width, height, poMazeData, visitOrder) IN
          /\ width' = r.width
          /\ height' = r.height
          /\ loadCall' = [asked |-> TRUE, blob |-> blob, outcome |-> r.outcome]
          /\ IF r.outcome = "ok"
             THEN /\ loaded' = r.md
                  /\ poMazeData' = Reset(r.md)
                  /\ visitOrder' = ResetVisitOrder(r.vo)
                  /\ thread_ownership' = [i \in DOMAIN r.md |-> -1]
                  /\ pc' = "start"
             ELSE /\ poMazeData' = r.md
                  /\ visitOrder' = r.vo
                  /\ UNCHANGED <<loaded, thread_ownership, pc>>
    /\ UNCHANGED <<algorithm, hist, bfs, dfs, m2, m1, tick, resets, fresh,
                   probe, nextCall>>

SpecLoad == InitPage /\ [][loadMaze]_vars

\* the generator has not finished, so that loop() resumes it at the next
\* frame; it has not finished either when a resumption never returns, and a
\* walker whose stack is at the bound is stepped no further
Running ==
    /\ pc \notin {"done", "hang"}
    /\ ~(algorithm = "MT_M2" /\ pc = "m2_round"
            /\ Len(m2.threads[m2.turn].stack) > MaxStack)

\* loop(): while the state shown is not terminal, every frame resumes the
\* generator; a step of Next is taken whenever one is possible
Resume == Running /\ tick' = 1 - tick

SpecBD == InitFor({"BFS", "DFS"}) /\ [][NextBFS \/ NextDFS]_vars
            /\ WF_tick(Resume)
SpecM2 == InitFor({"MT_M2"}) /\ [][NextM2]_vars /\ WF_tick(Resume)
SpecM1 == InitFor({"MT_M1"}) /\ [][NextM1]_vars /\ WF_tick(Resume)

-----------------------------------------------------------------------------
(* Vocabulary of the properties.  Reachability and paths are read off the  *)
(* wall bits directly, not through Maze.canMove.                           *)

Cell(pos) == poMazeData[pos[1] * width + pos[2]]

\* p and q are grid cells joined by an edge without a wall
OpenEdge(p, q) ==
    /\ p \in Grid /\ q \in Grid
    /\ \/ q = <<p[1], p[2] + 1>> /\ EAST_BIT \notin Cell(p)
       \/ p = <<q[1], q[2] + 1>> /\ EAST_BIT \notin Cell(q)
       \/ q = <<p[1] + 1, p[2]>> /\ SOUTH_BIT \notin Cell(p)
       \/ p = <<q[1] + 1, q[2]>> /\ SOUTH_BIT \notin Cell(q)

RECURSIVE ReachClosure(_)
ReachClosure(seen) ==
    LET more == {q \in Grid \ seen : \E p \in seen : OpenEdge(p, q)} IN
    IF more = {} THEN seen ELSE ReachClosure(seen \cup more)

\* End is reachable from Start through open edges
Solvable == getEnd \in ReachClosure({getStart})

OnPath == {p \in Grid : PATH_BIT \in Cell(p)}

\* the cells of `left` can be ordered into a chain of open edges that starts
\* at a neighbour of p and ends at End, using each exactly once
RECURSIVE ChainFrom(_, _)
ChainFrom(p, left) ==
    IF left = {} THEN p = getEnd
    ELSE /\ p # getEnd
         /\ \E q \in left : OpenEdge(p, q) /\ ChainFrom(q, left \ {q})

\* the ON_PATH cells are exactly the cells of a simple chain Start .. End
PathIsChain ==
    /\ getStart \in OnPath
    /\ getEnd \in OnPath
    /\ ChainFrom(getStart, OnPath \ {getStart})

Done == pc = "done"

-----------------------------------------------------------------------------
(* Claims *)

\* C1: MT-M2 path validity: whenever the MT-M2 token sequence ends with
\* FINISHED, the ON_PATH cells are exactly the cells of a chain Start .. End
\* of open edges without repeated cells.
C1_M2PathValid ==
    (algorithm = "MT_M2" /\ hist.last = FINISHED) => PathIsChain

\* C2: MT-M1 path validity: whenever the MT-M1 token sequence ends with
\* FINISHED, the ON_PATH cells are exactly the cells of a chain Start .. End
\* of open edges without repeated cells.
C2_M1PathValid ==
    (algorithm = "MT_M1" /\ hist.last = FINISHED) => PathIsChain

\* C3: BFS and DFS path validity: whenever the BFS or DFS token sequence
\* ends with FINISHED, the ON_PATH cells are exactly the cells of a chain
\* Start .. End of open edges without repeated cells.
C3_BFSDFSPathValid ==
    (algorithm \in {"BFS", "DFS"} /\ hist.last = FINISHED) => PathIsChain

\* a DFS run that finished with a path of at least four cells after having
\* popped a cell that is not on it
C3_Witness ==
    /\ algorithm = "DFS" /\ hist.last = FINISHED
    /\ Cardinality(OnPath) >= 4
    /\ \E p \in Grid \ OnPath : visitOrder[cellIndex(p)] # -1

\* C4: MT-M1 on an unsolvable maze: the token sequence is finite and its
\* last token is NO_SOLUTION (stated for the runs that end: a finished run
\* on an unsolvable maze ended with NO_SOLUTION).
C4_M1Unsolvable ==
    (algorithm = "MT_M1" /\ ~Solvable /\ Done) => hist.last = NO_SOLUTION

\* C5: MT-M1 on a solvable maze: the search loop exits after finitely many
\* rounds and the token sequence ends with FINISHED.
C5_M1SolvableFinishes ==
    <>(Solvable => (Done /\ hist.last = FINISHED))

\* a finished MT-M1 run on a solvable maze in which the walker moved and the
\* backward BFS supplied the rest of the path
C5_Witness ==
    /\ algorithm = "MT_M1" /\ Solvable /\ Done /\ hist.last = FINISHED
    /\ Len(m1.solve_list) >= 1
    /\ m1.curr = getEnd
    /\ Cardinality(OnPath) > Len(m1.solve_list) + 1

\* C6: MT-M2 on a solvable maze: the run ends, and it ends with FINISHED,
\* never with NO_SOLUTION (stated for what a finite run can show: the
\* generator never gets stuck inside a resumption, and a finished run ended
\* with FINISHED).
C6_M2Solvable ==
    (algorithm = "MT_M2" /\ Solvable) =>
        (pc # "hang" /\ (Done => hist.last = FINISHED))

\* some walker's stack is at the bound on stack depth
StackCapped ==
    algorithm = "MT_M2" /\ pc = "m2_round"
        /\ Len(m2.threads[m2.turn].stack) > MaxStack

\* C7: MT-M2 on an unsolvable maze: after finitely many rounds every one of
\* the six walkers has returned DEAD and the token sequence ends with
\* NO_SOLUTION (runs cut short by the bound on stack depth are not counted
\* against it).
C7_M2Unsolvable ==
    <>(\/ Solvable
       \/ /\ Done /\ hist.last = NO_SOLUTION
          /\ \A i \in ThreadIds : m2.threads[i].finished
       \/ StackCapped)

\* C8: BFS and DFS terminal token: the token sequences are finite; the last
\* token is FINISHED if End is reachable from Start and NO_SOLUTION if not.
C8_BFSDFSTerminal ==
    /\ <>Done
    /\ [](Done => /\ hist.last \in {FINISHED, NO_SOLUTION}
                  /\ (hist.last = FINISHED <=> Solvable))

\* a DFS run that ended with NO_SOLUTION after exploring at least three cells
C8_Witness ==
    /\ algorithm = "DFS" /\ Done /\ hist.last = NO_SOLUTION
    /\ Cardinality({i \in DOMAIN visitOrder : visitOrder[i] # -1}) >= 3

\* C9: 1x1 maze: every solver ends its token sequence with FINISHED and
\* exactly that single cell carries ON_PATH.
C9_OneByOne ==
    (width = 1 /\ height = 1 /\ Done) =>
        (hist.last = FINISHED /\ OnPath = {<<0, 0>>})

\* C10: token ordering: every yielded token is one of the four phase tokens;
\* at most one terminal token is yielded and nothing after it; no SEARCHING
\* after the first BACKTRACKING; NO_SOLUTION is never preceded by BACKTRACKING.
C10_TokenOrder ==
    /\ ~hist.misordered
    /\ hist.terminals <= 1
    /\ hist.last \in Tokens \cup {""}
    /\ (hist.terminals = 1 <=> Done)
    /\ (hist.terminals = 1 <=> hist.last \in {FINISHED, NO_SOLUTION})

\* an MT-M1 run that yielded SEARCHING, then BACKTRACKING, then FINISHED
C10_Witness ==
    /\ algorithm = "MT_M1" /\ hist.last = FINISHED /\ hist.backtracked
    /\ Len(m1.solve_list) >= 1

\* the generator is suspended at a yield: a token has just been handed out
AtToken ==
    /\ hist.last # ""
    /\ pc \in {"bfs_search", "bfs_back", "dfs_search", "dfs_back",
               "m2_yielded", "m2_half1", "m2_jump", "m2_walk",
               "m1_yielded", "m1_rec_tb", "m1_rec_bt", "done"}

C12_TeamBitsExclusive ==
    (algorithm = "MT_M2" /\ AtToken) =>
        \A p \in Grid : ~({VISITED_TB, VISITED_BT} \subseteq Cell(p))

\* the MT-M2 search loop is running or has just been left
M2SearchPhase == algorithm = "MT_M2" /\ pc \in {"m2_round", "m2_yielded"}

\* C13: MT-M2 ownership invariant: in the search phase a cell with
\* VISITED_TB set and VISITED_BT clear is owned by a walker 0..2, and a cell
\* with VISITED_BT set and VISITED_TB clear by a walker 3..5.
C13_TeamOwnership ==
    M2SearchPhase =>
        \A p \in Grid :
            /\ (VISITED_TB \in Cell(p) /\ VISITED_BT \notin Cell(p))
                  => thread_ownership[cellIndex(p)] \in 0 .. 2
            /\ (VISITED_BT \in Cell(p) /\ VISITED_TB \notin Cell(p))
                  => thread_ownership[cellIndex(p)] \in 3 .. 5

\* a search-phase state with a cell held by a second or third top-down
\* walker and a cell held by a second or third bottom-up walker
C13_Witness ==
    /\ M2SearchPhase
    /\ \E p \in Grid :
          /\ VISITED_TB \in Cell(p) /\ VISITED_BT \notin Cell(p)
          /\ thread_ownership[cellIndex(p)] \in 1 .. 2
    /\ \E p \in Grid :
          /\ VISITED_BT \in Cell(p) /\ VISITED_TB \notin Cell(p)
          /\ thread_ownership[cellIndex(p)] \in 4 .. 5

\* the number of open edges of cell p
Degree(p) == Cardinality({q \in Grid : OpenEdge(p, q)})

\* MT-M2 runs on a maze without branches in which a corridor joins Start and End
CorridorOnly ==
    /\ algorithm = "MT_M2"
    /\ \A p \in Grid : Degree(p) <= 2
    /\ Solvable

\* the cell onto which the walker that reported the collision was stepping
CollisionCell == Top(m2.threads[m2.turn].stack).at

RECURSIVE DistFrom(_, _, _)
DistFrom(frontier, seen, k) ==
    IF getEnd \in frontier THEN k
    ELSE LET more == {q \in Grid \ seen : \E p \in frontier : OpenEdge(p, q)}
         IN IF more = {} THEN -1 ELSE DistFrom(more, seen \cup more, k + 1)

\* breadth-first distance from Start to End: the number of cells stepped onto
BFSDistance == DistFrom({getStart}, {getStart}, 0)

\* a BFS run on a solvable maze has finished
BFSFinished ==
    algorithm = "BFS" /\ Solvable /\ Done /\ hist.last = FINISHED

OnPathCells == {i \in DOMAIN poMazeData : PATH_BIT \in poMazeData[i]}

C17_CanMoveSymmetric ==
    probe.asked => probe.fwd = probe.back

\* the wall bits of a cell word
Walls(word) == word \cap {EAST_BIT, SOUTH_BIT}

C19_ParentOneHot ==
    \A p \in Grid : Cardinality(Cell(p) \cap PARENT_MASK) <= 1

\* an MT-M2 walker in a corridor is about to claim a cell that still carries
\* the parent pointer of an earlier visit, in another direction
C19_Witness ==
    /\ algorithm = "MT_M2" /\ pc = "m2_round"
    /\ LET t == m2.threads[m2.turn]
           next_p == Move(t.target_pos, t.corridor_dir)
       IN /\ ~t.finished /\ Len(t.stack) > 0 /\ t.state = 1
          /\ next_p \in Grid
          /\ ~Collision(t, poMazeData, next_p)
          /\ Cell(next_p) \cap PARENT_MASK # {}
          /\ Cell(next_p) \cap PARENT_MASK
                # ParentBit(reverseDir(t.corridor_dir))

\* the cells of the DFS stack, bottom first
StackCells == [i \in 1 .. Len(dfs.stack) |-> dfs.stack[i][1]]

\* C20: DFS stack invariant: at every token boundary of a DFS run the cells
\* with ON_STACK set are exactly the cells of the DFS stack, and these form
\* a simple path of open edges from Start to the stack top.
C20_DFSStack ==
    (algorithm = "DFS" /\ AtToken) =>
        /\ {p \in Grid : ON_STACK_BIT \in Cell(p)}
              = {StackCells[i] : i \in 1 .. Len(StackCells)}
        /\ Len(StackCells) > 0 => StackCells[1] = getStart
        /\ \A i, j \in 1 .. Len(StackCells) :
              i # j => StackCells[i] # StackCells[j]
        /\ \A i \in 1 .. Len(StackCells) - 1 :
              OpenEdge(StackCells[i], StackCells[i + 1])

\* a DFS run at a token boundary with at least three cells on the stack and
\* a visited cell that has been popped
C20_Witness ==
    /\ algorithm = "DFS" /\ AtToken /\ Len(dfs.stack) >= 3
    /\ \E p \in Grid :
          visitOrder[cellIndex(p)] # -1 /\ ON_STACK_BIT \notin Cell(p)

\* the cells of the route the MT-M1 walker recorded: Start and the cell
\* reached after each direction of `list`, replayed from pos
RECURSIVE RouteFrom(_, _)
RouteFrom(pos, list) ==
    IF list = <<>> THEN {pos}
    ELSE {pos} \cup RouteFrom(Move(pos, Head(list)), Tail(list))

WalkerRoute == RouteFrom(getStart, m1.solve_list)

\* C21: MT-M1 path-parent invariant: when MT-M1 yields FINISHED, every
\* ON_PATH cell that is neither Start nor End and is not a cell of the
\* walker's recorded route has at least one PARENT_* bit set.
C21_M1PathParent ==
    (algorithm = "MT_M1" /\ hist.last = FINISHED) =>
        \A p \in OnPath \ ({getStart, getEnd} \cup WalkerRoute) :
            Cell(p) \cap PARENT_MASK # {}

\* a finished MT-M1 run whose walker moved and whose path has, beyond the
\* walker's route and before End, a cell marked by following the BT hints
C21_Witness ==
    /\ algorithm = "MT_M1" /\ hist.last = FINISHED
    /\ Len(m1.solve_list) >= 1
    /\ \E p \in OnPath \ ({getStart, getEnd} \cup WalkerRoute) :
          Cell(p) \cap PARENT_MASK # {}

\* the header of the blob is short, or a dimension is negative, or the body
\* has fewer whole words than the rows of the grid need (one word for every
\* 16 cells of a row, started anew at every row)
Malformed(blob) ==
    \/ byteLength(blob) < 12
    \/ LET w == blob.ints[1]
           h == blob.ints[2]
       IN \/ w < 0
          \/ h < 0
          \/ Len(blob.ints) - 3 < h * ((w + 15) \div 16)

\* C22: the loader rejects malformed input: Load of a blob whose header is
\* short, whose dimensions are negative or whose body ends before every cell
\* of the grid has been assigned its wall bits ends in an error; it never
\* completes successfully.
C22_LoaderRejects ==
    (loadCall.asked /\ Malformed(loadCall.blob)) => loadCall.outcome # "ok"

\* the number of rows of the band of pruner i
BandSize(i) == m1.pruners[i].row_end - m1.pruners[i].row_start

\* C23: MT-M1 row partition: for every height H >= 1 (also H < 4), the four
\* bands [row_start, row_end) are consecutive, pairwise disjoint, cover
\* exactly the rows 0 .. H-1, and have floor(H/4) + 1 rows for the first
\* H mod 4 bands and floor(H/4) rows for the others.
C23_RowPartition ==
    algorithm = "MT_M1" =>
        /\ m1.pruners[0].row_start = 0
        /\ m1.pruners[3].row_end = height
        /\ \A i \in 0 .. 2 :
              m1.pruners[i].row_end = m1.pruners[i + 1].row_start
        /\ \A r \in 0 .. height - 1 :
              Cardinality({i \in 0 .. 3 : /\ m1.pruners[i].row_start <= r
                                          /\ r < m1.pruners[i].row_end}) = 1
        /\ \A i \in 0 .. 3 : \A r \in m1.pruners[i].row_start ..
                                        m1.pruners[i].row_end - 1 :
              r \in 0 .. height - 1
        /\ \A i \in 0 .. 3 :
              BandSize(i) = IF i < height % 4 THEN height \div 4 + 1
                            ELSE height \div 4

\* an MT-M1 run on a maze of three rows: the first three pruners have scanned
\* their one-row bands, the fourth has an empty band
C23_Witness ==
    /\ algorithm = "MT_M1" /\ height = 3
    /\ \A i \in 0 .. 2 : BandSize(i) = 1 /\ m1.pruners[i].phase = "PRUNE"
    /\ BandSize(3) = 0
    /\ m1.pruners[3].phase = "PRUNE"

\* the step of the MT-M2 scheduler in which a walker returns FOUND_TARGET
M2CollisionStep ==
    algorithm = "MT_M2" /\ pc = "m2_round" /\ ~m2.found /\ m2'.found

\* C24: MT-M2 collision leaves the evidence intact: in the walker step that
\* returns FOUND_TARGET (from JUNCTION or from CORRIDOR state) no cell word
\* and no ownership entry is changed; of the walkers only the reporting one
\* changes, and only in its stack and its target_pos.
C24_CollisionFrame ==
    [][M2CollisionStep =>
          /\ poMazeData' = poMazeData
          /\ thread_ownership' = thread_ownership
          /\ visitOrder' = visitOrder
          /\ \A i \in ThreadIds \ {m2.turn} : m2'.threads[i] = m2.threads[i]
          /\ m2'.threads[m2.turn]
                = [m2.threads[m2.turn] EXCEPT
                      !.stack = m2'.threads[m2.turn].stack,
                      !.target_pos = m2'.threads[m2.turn].target_pos]]_vars

\* a walker in CORRIDOR state has just reported a collision on a cell that
\* is neither Start nor End and that still carries the team bit and the
\* owner of the other team only
C24_Witness ==
    /\ algorithm = "MT_M2" /\ pc = "m2_yielded" /\ m2.found
    /\ LET t == m2.threads[m2.turn] IN
       /\ t.state = 1
       /\ t.target_pos \notin {getStart, getEnd}
       /\ Top(t.stack).at = t.target_pos
       /\ ~isVisitedByTeam(poMazeData, t.target_pos, t.is_tb)
       /\ isVisitedByTeam(poMazeData, t.target_pos, ~t.is_tb)
       /\ (getThreadOwner(thread_ownership, t.target_pos) >= 3) = t.is_tb

\* the cell at which the reporting walker detected the collision: its stack
\* top, which in CORRIDOR state is the junction pushed for `next`
DetectedAt == Top(m2.threads[m2.turn].stack).at

\* C25: MT-M2 collision position: whenever a walker returns FOUND_TARGET,
\* the collision_pos recorded by the scheduler is defined and equals the cell
\* at which that walker detected the collision (the stack-top cell in
\* JUNCTION state, the cell `next` in CORRIDOR state).
C25_CollisionPos ==
    (algorithm = "MT_M2" /\ m2.found) =>
        /\ m2.collision_pos # Null
        /\ m2.collision_pos = DetectedAt

\* the reconstruction of MT-M2 has selected the bottom-up walker m2.bt for
\* its second half
Half2Selected == algorithm = "MT_M2" /\ m2.bt # -1

\* C26: MT-M2 Half 2 starting point: whenever the reconstruction selects a
\* BT walker for Half 2, collision_pos equals the `at` of some entry of that
\* walker's stack, so that the index k chosen has stack[k].at = collision_pos
\* and the segment walk starts at collision_pos.
C26_Half2Start ==
    Half2Selected =>
        LET stack == m2.threads[m2.bt].stack IN
        /\ \E i \in 1 .. Len(stack) : stack[i].at = m2.collision_pos
        /\ stack[SyncStackIdx(stack, m2.collision_pos)].at = m2.collision_pos

\* walkers i (team TB) and j (team BT) have both moved, in the round under
\* way or just ended, onto one cell that carried no team bit when the round
\* began
SameRoundArrival(i, j) ==
    /\ algorithm = "MT_M2" /\ m2.threads # <<>>
    /\ {i, j} \subseteq m2.stepped
    /\ m2.moved[i] # Null /\ m2.moved[i] = m2.moved[j]
    /\ cellIndex(m2.moved[i]) \notin m2.round_teams

\* C27: MT-M2 same-round arrival: when a TB walker and a BT walker both move
\* in one round onto a cell without a team bit at the start of the round,
\* the earlier-stepped (lower-id) walker has set its team bit and ownership
\* on the cell, the later-stepped walker has returned FOUND_TARGET in that
\* round with collision_pos equal to the cell and without changing the cell,
\* and no walker with a higher id than the reporter is stepped in the round.
C27_SameRoundArrival ==
    \A i \in 0 .. 2 : \A j \in 3 .. 5 :
        SameRoundArrival(i, j) =>
            /\ i \in m2.claimed
            /\ m2.found /\ m2.turn = j
            /\ m2.collision_pos = m2.moved[j]
            /\ j \notin m2.wrote /\ j \notin m2.claimed
            /\ \A k \in ThreadIds : k > j => k \notin m2.stepped

\* walker 2 and walker 3 have met in one round on a cell that is neither
\* Start nor End
C27_Witness ==
    /\ SameRoundArrival(2, 3)
    /\ m2.moved[3] \notin {getStart, getEnd}
    /\ m2.found /\ m2.turn = 3

\* the directions held by the live slots of a Branches object
LiveDirs(b) == {b.directions[i] : i \in 1 .. 4} \ {Uninitialized}

\* the live directions of the call made that were not DEAD on `at`, and those
\* among them that were not OCCUPIED either
CallOpen ==
    {d \in LiveDirs(nextCall.b) :
        ~checkBranchDead(nextCall.before, nextCall.at, d)}
CallFree ==
    {d \in CallOpen : ~checkBranchOccupied(nextCall.before, nextCall.at, d)}

\* C28: Branches.getNextThreads selection: the direction returned is never
\* one whose DEAD bit is set on `at`; a direction whose OCCUPIED bit was
\* already set is returned only if no live slot holds a direction that is
\* neither DEAD nor OCCUPIED, and then no OCCUPIED bit is changed; when a
\* previously unoccupied direction is returned exactly its OCCUPIED bit is
\* set; Uninitialized is returned if and only if no live slot holds a
\* non-DEAD direction.
C28_NextMtSelection ==
    nextCall.asked =>
        LET d == nextCall.d
            md == nextCall.before
            at == nextCall.at
        IN /\ d # Uninitialized => d \in CallOpen
           /\ (d # Uninitialized /\ checkBranchOccupied(md, at, d)) =>
                 /\ CallFree = {}
                 /\ poMazeData = md
           /\ (d # Uninitialized /\ ~checkBranchOccupied(md, at, d)) =>
                 poMazeData = setFlag(md, at, OccupiedBit(d))
           /\ d = Uninitialized <=> CallOpen = {}

\* the soft fallback was taken on a junction that also holds a DEAD branch:
\* an occupied direction came back although another live slot was tried
C28_Witness ==
    /\ nextCall.asked
    /\ nextCall.d # Uninitialized
    /\ checkBranchOccupied(nextCall.before, nextCall.at, nextCall.d)
    /\ Cardinality(CallOpen) >= 2
    /\ LiveDirs(nextCall.b) \ CallOpen # {}

\* the cells reachable from the cells of `seen` through open edges without
\* entering cell c
RECURSIVE ReachAvoiding(_, _)
ReachAvoiding(seen, c) ==
    LET more == {q \in Grid \ (seen \cup {c}) : \E p \in seen : OpenEdge(p, q)}
    IN IF more = {} THEN seen ELSE ReachAvoiding(seen \cup more, c)

\* the number of open edges of the maze
NumOpenEdges ==
    Cardinality({pq \in Grid \X Grid : OpenEdge(pq[1], pq[2])}) \div 2

\* the number of connected components among the cells of `left`, a union of
\* components
RECURSIVE NumComponents(_)
NumComponents(left) ==
    IF left = {} THEN 0
    ELSE LET p == CHOOSE x \in left : TRUE
         IN 1 + NumComponents(left \ ReachClosure({p}))

\* the open edges form no cycle: the maze is a forest
Acyclic == NumOpenEdges + NumComponents(Grid) = Size

\* a perfect maze: acyclic, and every cell reachable from Start
Perfect == Acyclic /\ ReachClosure({getStart}) = Grid

\* MT-M2 on every perfect maze of at most TreeCells cells
TreeDims ==
    {d \in (1 .. TreeCells) \X (1 .. TreeCells) : d[1] * d[2] <= TreeCells}

\* the w x h maze with inner walls ew and sw is perfect: it has one open
\* edge less than cells, and every set of cells that holds cell 0 and not
\* every cell has an open edge leaving it
PerfectWalls(w, h, ew, sw) ==
    LET oe == EastEdges(w, h) \ ew
        os == SouthEdges(w, h) \ sw
    IN /\ Cardinality(oe) + Cardinality(os) = w * h - 1
       /\ \A S \in SUBSET (1 .. w * h - 1) :
             S # 1 .. w * h - 1 =>
                \E i \in S \cup {0} :
                    \/ i \in oe /\ i + 1 \notin S \cup {0}
                    \/ i \in os /\ i + w \notin S \cup {0}
                    \/ i - 1 \in oe /\ i - 1 \notin S \cup {0}
                    \/ i - w \in os /\ i - w \notin S \cup {0}

InitPerfect ==
    \E d \in TreeDims :
        \E ew \in SUBSET EastEdges(d[1], d[2]),
           sw \in SUBSET SouthEdges(d[1], d[2]) :
            /\ PerfectWalls(d[1], d[2], ew, sw) = TRUE
            /\ InitMaze(d[1], d[2], ew, sw, "MT_M2")

SpecM2Perfect == InitPerfect /\ [][NextM2]_vars

\* the branches retired so far: cell c carries the DEAD bit of direction d
DeadBranches ==
    {cd \in Grid \X Cardinal : DeadBit(cd[2]) \subseteq Cell(cd[1])}

\* C29: MT-M2 DEAD-branch soundness: on an acyclic maze, in every state of
\* the MT-M2 search, if DEAD_d is set on a cell c then neither Start nor End
\* is reachable from c.move(d) through open edges without passing through c.
C29_DeadBranchSound ==
    (algorithm = "MT_M2" /\ Acyclic) =>
        \A cd \in DeadBranches :
            LET beyond == ReachAvoiding({Move(cd[1], cd[2])}, cd[1])
            IN getStart \notin beyond /\ getEnd \notin beyond

\* on a perfect maze a walker of each team has retired a branch while the
\* search is still under way
C29_Witness ==
    /\ algorithm = "MT_M2" /\ Perfect /\ pc = "m2_round" /\ ~m2.found
    /\ \E cd \in DeadBranches :
          getThreadOwner(thread_ownership, cd[1]) \in 0 .. 2
    /\ \E cd \in DeadBranches :
          getThreadOwner(thread_ownership, cd[1]) \in 3 .. 5

\* MT-M2 search on the 6 x 2 maze on which a walker of the top-down team
\* backtracks over cells whose PARENT bits other walkers have rewritten
TrapEast == {4, 7, 9}
TrapSouth == {2, 3, 5}
InitTrap == InitMaze(6, 2, TrapEast, TrapSouth, "MT_M2")
SpecM2Trap == InitTrap /\ [][M2Start \/ M2Step \/ M2NextRound]_vars

\* C30: MT-M2 BACKTRACK completes: a walker that enters BACKTRACK state is in
\* JUNCTION state again after at most as many of its own steps as the maze
\* has cells (a walk back along a corridor passes no cell twice), and at that
\* moment its target_pos equals backtrack_target, the `at` of its stack top.
C30_BacktrackCompletes ==
    (algorithm = "MT_M2" /\ m2.threads # <<>>) =>
        /\ \A i \in ThreadIds :
              m2.threads[i].state = 2 => m2.bt_steps[i] <= Size
        /\ m2.bt_astray = {}

\* the cells of the simple open-edge paths that lead from p, reached over
\* the cells of `seen`, on to End
RECURSIVE PathCells(_, _)
PathCells(p, seen) ==
    IF p = getEnd THEN seen
    ELSE UNION {PathCells(q, seen \cup {q}) :
                    q \in {x \in Grid \ seen : OpenEdge(p, x)}}

\* the cells that lie on a simple open-edge path from Start to End
RouteCells == PathCells(getStart, {getStart})

\* C32: MT-M1 pruning never cuts the route: in every state of an MT-M1 run
\* Start and End are not PRUNED and no cell that lies on a simple open-edge
\* path from Start to End is PRUNED.
C32_PruneKeepsRoute ==
    algorithm = "MT_M1" =>
        \A p \in {getStart, getEnd} \cup RouteCells : ~isPruned(poMazeData, p)

\* the pruners have pruned a cell next to a cell of the route on a solvable
\* maze in which Start and End are dead ends themselves
C32_Witness ==
    /\ algorithm = "MT_M1" /\ Solvable
    /\ Degree(getStart) = 1 /\ Degree(getEnd) = 1
    /\ \E p \in Grid \ RouteCells : \E q \in RouteCells \ {getStart, getEnd} :
          isPruned(poMazeData, p) /\ OpenEdge(p, q)

\* `for (let p of this.pruners) p.step()` on its own: the pruners stepped in
\* turn, without the walker and the BFS thread that end the search loop
PrunerStep ==
    /\ algorithm = "MT_M1" /\ pc = "start"
    /\ LET r == PruneThreadStep(m1.pruners[m1.turn], poMazeData,
                                thread_ownership, m1.queues)
       IN /\ m1' = [m1 EXCEPT !.pruners[m1.turn] = r.p,
                              !.queues = r.queues,
                              !.turn = (@ + 1) % NumPruners]
          /\ poMazeData' = r.md
          /\ thread_ownership' = r.own
    /\ tick' = 1 - tick
    /\ UNCHANGED <<mazeVars, userVars, visitOrder, algorithm, pc, hist, bfs,
                   dfs, m2>>

SpecPrune == InitFor({"MT_M1"}) /\ [][PrunerStep]_vars /\ WF_vars(PrunerStep)

PrunersQuiet ==
    \A i \in 0 .. NumPruners - 1 :
        /\ m1.pruners[i].phase = "PRUNE"
        /\ m1.pruners[i].stack = <<>>
        /\ m1.queues[i] = <<>>

\* the open neighbours of p that are not PRUNED
LiveNeighbours(p) ==
    {q \in Grid : OpenEdge(p, q) /\ ~isPruned(poMazeData, q)}

PruneClosed ==
    \A p \in Grid \ {getStart, getEnd} :
        Cardinality(LiveNeighbours(p)) <= 1 =>
            /\ isPruned(poMazeData, p)
            /\ \E i \in 0 .. NumPruners - 1 :
                  /\ m1.pruners[i].row_start <= p[1]
                  /\ p[1] < m1.pruners[i].row_end
                  /\ getThreadOwner(thread_ownership, p) = i

\* C33: stepping the four pruners in turn reaches, after finitely many steps,
\* a state where all are in the PRUNE phase with empty stacks and empty
\* inbound queues; in every such state each cell other than Start and End
\* with at most one open neighbour that is not PRUNED is itself PRUNED and
\* owned by the pruner whose band contains its row.
C33_PruneCompletes ==
    /\ <>PrunersQuiet
    /\ [](PrunersQuiet => PruneClosed)

C33_Witness ==
    /\ algorithm = "MT_M1" /\ PrunersQuiet
    /\ \E p \in Grid : \E q \in Grid :
          /\ isPruned(poMazeData, p) /\ isPruned(poMazeData, q)
          /\ OpenEdge(p, q) /\ Degree(q) = 2
          /\ getThreadOwner(thread_ownership, p)
                # getThreadOwner(thread_ownership, q)

\* the directions of list, taken from pos, cross open edges only and never
\* come to a cell of seen or to a cell they were at before
RECURSIVE SimpleOpenWalk(_, _, _)
SimpleOpenWalk(pos, list, seen) ==
    IF list = <<>> THEN TRUE
    ELSE LET nxt == Move(pos, Head(list))
         IN /\ nxt \in Grid
            /\ OpenEdge(pos, nxt)
            /\ nxt \notin seen
            /\ SimpleOpenWalk(nxt, Tail(list), seen \cup {nxt})

RECURSIVE WalkEnd(_, _)
WalkEnd(pos, list) ==
    IF list = <<>> THEN pos ELSE WalkEnd(Move(pos, Head(list)), Tail(list))

\* the un-pruned open neighbours of the walker's cell other than the one it
\* came from
WalkerChoices ==
    {q \in Grid : /\ OpenEdge(m1.walker.curr, q)
                  /\ ~isPruned(poMazeData, q)
                  /\ (m1.walker.came_from = Uninitialized
                        \/ q # Move(m1.walker.curr, m1.walker.came_from))}

WalkerOnSkeleton ==
    (algorithm = "MT_M1" /\ Solvable) =>
        /\ \A p \in WalkerRoute \cup {m1.walker.curr} :
              ~isPruned(poMazeData, p)
        /\ SimpleOpenWalk(getStart, m1.solve_list, {getStart})
        /\ WalkEnd(getStart, m1.solve_list) = m1.walker.curr

WalkerMovesOnlyForced ==
    (algorithm = "MT_M1" /\ Solvable
       /\ m1'.walker.curr # m1.walker.curr) =>
        /\ Cardinality(WalkerChoices) = 1
        /\ m1'.walker.curr \in WalkerChoices

\* C34: on a solvable maze, at every state of an MT-M1 run the walker's
\* current cell and every cell of its recorded route are not PRUNED, the
\* recorded directions form a path of open edges from Start without repeated
\* cells, and the walker moves only in a step where exactly one un-pruned
\* open direction other than came_from exists.
C34_WalkerOnSkeleton ==
    /\ []WalkerOnSkeleton
    /\ [][WalkerMovesOnlyForced]_vars

\* on a solvable maze whose Start has several open neighbours the walker has
\* moved on, leaving behind a cell with a pruned open neighbour
C34_Witness ==
    /\ algorithm = "MT_M1" /\ Solvable
    /\ Degree(getStart) >= 2
    /\ Len(m1.solve_list) >= 1
    /\ \E p \in WalkerRoute \ {m1.walker.curr} : \E q \in Grid :
          OpenEdge(p, q) /\ isPruned(poMazeData, q)

\* how many times the backward BFS has given p to its deque
TimesAppended(p) ==
    Cardinality({k \in 1 .. Len(m1.bfs.log) : m1.bfs.log[k] = p})

\* C35: during an MT-M1 run every cell, End included, is appended to the
\* frontier of the backward BFS at most once, and End never receives a
\* PARENT_* bit.
C35_BackwardBFSStandard ==
    algorithm = "MT_M1" =>
        /\ \A p \in Grid : TimesAppended(p) <= 1
        /\ Cell(getEnd) \cap PARENT_MASK = {}

\* C36: BFS finds a shortest path: when BFS has yielded FINISHED on a solvable
\* maze, the number of ON_PATH cells is the least number of open edges of any
\* path from Start to End, plus one.
C36_BFSShortest ==
    BFSFinished => Cardinality(OnPath) = BFSDistance + 1

\* BFS has finished on a maze with a cycle in which some cell of a longer
\* route from Start to End was left off the path
C36_Witness ==
    /\ BFSFinished
    /\ ~Acyclic
    /\ BFSDistance >= 2
    /\ RouteCells \ OnPath # {}

\* a 4 x 7 maze (Start (0,2), End (6,2)) on which the stack of the bottom-top
\* walker chosen by PART 2 does not follow marked cells
LostEast == {0, 1, 4, 6, 13, 14, 18, 24}
LostSouth == {2, 5, 9, 10, 11, 12, 17, 18, 22, 23}
InitLost == InitMaze(4, 7, LostEast, LostSouth, "MT_M2")
SpecM2Lost ==
    InitLost /\ [][M2Start \/ M2Step \/ M2NextRound \/ M2Reconstruct
                     \/ M2Half1 \/ M2Jump \/ M2Walk]_vars

\* C31: MT-M2 reconstruction failure is truncating: once a corridor walk of
\* Half 2 has found no next cell, no further stack segment is walked, no cell
\* other than End receives ON_PATH, and the run still ends with FINISHED.
C31_LostTruncates ==
    (algorithm = "MT_M2" /\ m2.lost) =>
        /\ pc \notin {"m2_jump", "m2_walk"}
        /\ OnPathCells \ m2.lost_path \subseteq {cellIndex(getEnd)}
        /\ hist.last = FINISHED

====
